---- MODULE Spec2Model ----
(***************************************************************************)
(* State-machine model of the MQTT ingestion layer of the Monitor          *)
(* dashboard: MqttService (src/services/MqttService.tsx) and the           *)
(* ReconnectingWebSocket / DataService pair (src/utils/connectionUtils.ts, *)
(* src/services/dataService.ts).                                           *)
(*                                                                         *)
(* JavaScript values are modelled as follows: strings are TLA+ strings,    *)
(* an object is a record whose DOMAIN is the set of fields it carries (an  *)
(* absent field is JavaScript's undefined), null is 0 for object handles,  *)
(* and fractional sensor quantities are kept in tenths.                    *)
(***************************************************************************)
EXTENDS Integers, Sequences, FiniteSets, TLC

VARIABLES
    \* ---- MqttService fields (MqttService.tsx:84-105)
    client,               \* handle of this.client, 0 = null
    callbacks,            \* names of the callbacks registered by connect()
    isConnected,
    reconnectAttempts,
    reconnectTimeout,     \* handle of the timer in this.reconnectTimeout, 0 = null
    currentTasks,         \* Map<string, Task> in insertion order: Seq of [key, task]
    currentWarnings,      \* Warning[]
    currentSensorData,
    \* ---- environment of MqttService: the mqtt.js clients and the timer queue
    clients,              \* the mqtt.js client objects, by handle
    timers,               \* pending setTimeout callbacks of handleReconnect: [id, stale],
                          \* stale iff scheduled before the latest disconnect() or by the
                          \* close event of a client that disconnect() had ended
    now,                  \* Date.now()
    \* ---- observation of the last step
    calls,                \* callbacks invoked by the last step, in order
    escaped,              \* TRUE iff the last step let an exception escape
    lastEvt,              \* the operation or event of the last step
    \* ---- history
    consecDisc,           \* consecutive disconnect() calls just made (saturates at 2)
    added,                \* all warnings ever passed to addWarning, oldest first
    lastUpdate,           \* lastUpdate[key]: Task built from the latest task_update of key
    handled,              \* number of 'message' events handled
    \* ---- ReconnectingWebSocket fields (connectionUtils.ts:89-93)
    ws,                   \* handle of this.ws, 0 = null
    wsReconnectAttempts,
    wsListeners,          \* events for which on() has registered DataService's listener
    \* ---- environment of ReconnectingWebSocket
    sockets,              \* the WebSocket objects, by handle
    wsTimers,             \* number of pending setTimeout callbacks of attemptReconnect
    \* ---- DataService fields (dataService.ts:64-75)
    mqttWs,               \* TRUE iff this.mqttWs holds the ReconnectingWebSocket
    subscribers,          \* Map channel -> number of callbacks subscribed
    sensorDataCache,      \* <<>> = null, else <<SensorData>>
    tasksCache,
    warningsCache,
    monitor,              \* ConnectionMonitor: [status, monitoring]
    \* ---- observation of the last step of the WebSocket side, and history
    wsLast,               \* [op, created, emitted, delay, notified, payload]
    dsDisconnected,       \* disconnect() was called and connectMQTT() not since
    wsHandled,            \* number of WebSocket messages received
    \* ---- more of MqttService and its environment
    simulating,           \* number of intervals started by simulateSensorUpdates()
    simTicks,             \* number of times an interval's callback has run
    shared,               \* shared[x]: the object now in this.currentWarnings /
                          \* this.currentSensorData has been passed to a callback
    dirty,                \* the objects the last step changed after they had been
                          \* passed to a callback
    \* ---- ManagementInterfaceProvider (ManagementInterfaceContext.tsx)
    mounted,              \* TRUE iff the MqttService belongs to a mounted provider
    dataState,            \* the provider's React state
    awaiting,             \* the connect() promises the provider awaits: [c, noTasks],
                          \* client c and whether dataState.tasks was empty in the
                          \* closure of the connectToMqtt that made the call
    simTimers,            \* pending setTimeout callbacks of connectToMqtt: [kind, noTasks]
    removedWarnings,      \* the warnings that clearWarnings() or acknowledgeWarning()
                          \* have removed from dataState.warnings so far
    effectDeps,           \* dataState.tasks.length and dataState.lastUpdate of the
                          \* render whose connectToMqtt the initialize-connection
                          \* effect last ran with
    \* ---- App (App.tsx) and the environment of initializeApp
    isLoading,
    appError,             \* the error state, "" = null
    race,                 \* the Promise.race of initializeApp: "pending", "resolved"
                          \* or "rejected"
    fetch,                \* the fetchAggregatorMetrics() promise: "pending" or "rejected"
    appTimer,             \* TRUE iff the 5 s timeout of initializeApp is pending
    \* ---- ManagementInterface (ManagementInterface.tsx)
    listeners,            \* this.listeners: sequence of listener names
    miCalls,              \* listener invocations of the last step: [listener, event]
    miThrew,              \* TRUE iff the last step let an exception escape
    miLast,               \* the event the last step published, NoEvent if none
    miSent,               \* number of send* calls made
    miGot                 \* miGot[l]: the numbers of the send* calls whose event
                          \* listener l was invoked with, in order of invocation

mqttVars == <<client, callbacks, isConnected, reconnectAttempts, reconnectTimeout,
              currentTasks, currentWarnings, currentSensorData>>
envVars  == <<clients, timers, now>>
obsVars  == <<calls, escaped, lastEvt>>
histVars == <<consecDisc, added, lastUpdate, handled>>
rwsVars  == <<ws, wsReconnectAttempts, wsListeners, sockets, wsTimers>>
dsVars   == <<mqttWs, subscribers, sensorDataCache, tasksCache, warningsCache, monitor>>
wsObs    == <<wsLast, dsDisconnected, wsHandled>>
wsVars   == <<rwsVars, dsVars, wsObs>>
simVars  == <<simulating, simTicks, shared, dirty>>
provVars == <<mounted, dataState, awaiting, simTimers, effectDeps, removedWarnings>>
appVars  == <<isLoading, appError, race, fetch, appTimer>>
miVars   == <<listeners, miCalls, miThrew, miLast, miSent, miGot>>
mqttSide == <<mqttVars, clients, timers, obsVars, histVars, simVars, provVars>>
vars     == <<mqttVars, envVars, obsVars, histVars, wsVars, simVars, provVars, appVars,
              miVars>>

----------------------------------------------------------------------------
\* Bounds of the model

MaxClock   == 2     \* Date.now() ranges over 1..MaxClock
MaxClients == 2     \* client objects that can still emit events
MaxTimers  == 2     \* reconnect timers pending at the same time
MaxMsgs    == 2     \* messages handled in SpecMsg
MaxTaskMsgs == 3    \* task updates handled in SpecTasks
MaxAdded   == 52    \* warnings added in SpecRing
MaxSockets == 2     \* WebSocket objects that can still emit events
MaxWsTimers == 2    \* attemptReconnect timers pending at the same time
MaxWsMsgs  == 2     \* messages received over the WebSocket
MaxSubs    == 1     \* callbacks subscribed to a DataService channel
MaxErrors  == 2     \* connection failures counted by the provider
MaxSims    == 1     \* simulation intervals running at the same time
MaxSimTicks == 2    \* runs of the simulation interval's callback
MaxHealthChecks == 11  \* runs of the health-check interval's callback
MaxListeners == 3   \* length of ManagementInterface.listeners
MaxSends   == 2     \* send* calls on the ManagementInterface
MaxSubSends == 2    \* send* calls in SpecSubs

\* Program constants
maxReconnectAttempts == 5
WarningCapacity      == 50
ReconnectBaseMs      == 5000
wsMaxReconnectAttempts == 5
wsReconnectDelayMs   == 1000
DsWarningCapacity    == 20
DayMs                == 86400000
HealthCheckMs        == 30000
WeekMs               == 7 * DayMs

----------------------------------------------------------------------------
\* JavaScript primitives used by the handlers

Has(obj, f) == f \in DOMAIN obj

\* truthiness of an optional string field: undefined and "" are falsy
Truthy(obj, f) == Has(obj, f) /\ obj[f] # ""

Min(a, b) == IF a < b THEN a ELSE b
Max(a, b) == IF a > b THEN a ELSE b

CharAt(s, i) == SubSeq(s, i, i)

UpperChars == "ABCDEFGHIJKLMNOPQRSTUVWXYZ"
LowerChars == "abcdefghijklmnopqrstuvwxyz"
DigitChars == "0123456789"

IndexIn(alphabet, c) ==
    IF \E i \in 1..Len(alphabet) : CharAt(alphabet, i) = c
    THEN CHOOSE i \in 1..Len(alphabet) : CharAt(alphabet, i) = c
    ELSE 0

\* String.prototype.toLowerCase
RECURSIVE toLowerCase(_)
toLowerCase(s) ==
    IF Len(s) = 0 THEN ""
    ELSE LET c == CharAt(s, 1)
             i == IndexIn(UpperChars, c)
         IN  (IF i > 0 THEN CharAt(LowerChars, i) ELSE c)
             \o toLowerCase(SubSeq(s, 2, Len(s)))

\* String.prototype.includes
includes(s, sub) ==
    \E i \in 1..(Len(s) - Len(sub) + 1) : SubSeq(s, i, i + Len(sub) - 1) = sub

\* s.replace(/\D/g, '')
RECURSIVE replaceNonDigits(_)
replaceNonDigits(s) ==
    IF Len(s) = 0 THEN ""
    ELSE LET c == CharAt(s, 1)
         IN  (IF IndexIn(DigitChars, c) > 0 THEN c ELSE "")
             \o replaceNonDigits(SubSeq(s, 2, Len(s)))

\* parseInt of a string of decimal digits; NaN (for "") is reported as -1
RECURSIVE digitsValue(_, _)
digitsValue(s, acc) ==
    IF Len(s) = 0 THEN acc
    ELSE digitsValue(SubSeq(s, 2, Len(s)),
                     10 * acc + (IndexIn(DigitChars, CharAt(s, 1)) - 1))

NaN == -1
parseIntDigits(s) == IF Len(s) = 0 THEN NaN ELSE digitsValue(s, 0)

\* Number.prototype.toString of a natural number
RECURSIVE numToString(_)
numToString(n) ==
    IF n < 10 THEN CharAt(DigitChars, n + 1)
    ELSE numToString(n \div 10) \o CharAt(DigitChars, (n % 10) + 1)

\* x.toFixed(1) of a non-negative quantity held in tenths
toFixed1(tenths) == numToString(tenths \div 10) \o "." \o numToString(tenths % 10)

\* n || fallback for a number n: NaN and 0 are falsy
NumOr(n, fallback) == IF n = NaN \/ n = 0 THEN fallback ELSE n

----------------------------------------------------------------------------
\* MqttService: message handling.  The handlers are operators on a record
\*   s = [tasks, warnings, sensor, calls, threw, shared, dirty]
\* holding the three data stores, the callbacks invoked so far and whether an
\* exception is propagating; an exception skips the rest of the handler.
\* s.shared[x] tells whether the object now held in this.currentWarnings
\* (x = "warnings") or this.currentSensorData (x = "sensor") has been passed to
\* a callback, s.dirty collects the objects changed after they had been.

Invoke(s, cb, arg) ==
    IF cb \in callbacks THEN [s EXCEPT !.calls = Append(@, [cb |-> cb, arg |-> arg])]
    ELSE s

Throw(s) == [s EXCEPT !.threw = TRUE]

\* this[x] is changed in place (unshift, +=, assignment to a property)
Mutate(s, x) == IF s.shared[x] THEN [s EXCEPT !.dirty = @ \cup {x}] ELSE s

\* this[x] = a new object
Replace(s, x) == [s EXCEPT !.shared[x] = FALSE]

\* this.callbacks[cb]?.(this[x]): the object itself is passed
Hand(s, cb, x) == IF cb \in callbacks THEN [s EXCEPT !.shared[x] = TRUE] ELSE s

\* faulty variant of MapSet: the entry is appended even when the key is present
MapSet_AlwaysAppends(m, key, task) == Append(m, [key |-> key, task |-> task])

\* this.currentTasks.set(key, task): replaces in place, else appends
MapSet(m, key, task) ==
    IF \E i \in 1..Len(m) : m[i].key = key
    THEN [i \in 1..Len(m) |-> IF m[i].key = key THEN [key |-> key, task |-> task] ELSE m[i]]
    ELSE Append(m, [key |-> key, task |-> task])

\* Array.from(this.currentTasks.values())
MapValues(m) == [i \in 1..Len(m) |-> m[i].task]

MapHas(m, key) == \E i \in 1..Len(m) : m[i].key = key
MapGet(m, key) == m[CHOOSE i \in 1..Len(m) : m[i].key = key].task

mapTaskStatus(event) ==
    IF ~Has(event, "status") THEN "pending"
    ELSE CASE event.status = "started"              -> "in-progress"
           [] event.status = "in_progress"          -> "in-progress"
           [] event.status = "waiting_confirmation" -> "in-progress"
           [] event.status = "completed"            -> "completed"
           [] event.status = "failed"               -> "pending"
           [] OTHER                                 -> "pending"

mapSeverity(details) ==
    LET lowerDetails == toLowerCase(details)
    IN  IF includes(lowerDetails, "critical") \/ includes(lowerDetails, "error")
           \/ includes(lowerDetails, "failed")
        THEN "high"
        ELSE IF includes(lowerDetails, "warning") \/ includes(lowerDetails, "anomaly")
                \/ includes(lowerDetails, "confirmation")
        THEN "medium"
        ELSE "low"

\* faulty variant of addWarning: the newest entry is dropped instead of the oldest
addWarning_DropsNewest(s, warning) ==
    LET newWarning == [id |-> now, severity |-> warning.severity,
                       message |-> warning.message, timestamp |-> warning.timestamp]
        unshifted  == <<newWarning>> \o s.warnings
        kept       == IF Len(unshifted) > WarningCapacity
                      THEN SubSeq(unshifted, 2, WarningCapacity + 1)
                      ELSE unshifted
        s1         == Mutate(s, "warnings")
        s2         == IF Len(unshifted) > WarningCapacity THEN Replace(s1, "warnings")
                      ELSE s1
    IN  Hand(Invoke([s2 EXCEPT !.warnings = kept], "onWarnings", kept),
             "onWarnings", "warnings")

addWarning(s, warning) ==
    LET newWarning == [id |-> now, severity |-> warning.severity,
                       message |-> warning.message, timestamp |-> warning.timestamp]
        unshifted  == <<newWarning>> \o s.warnings
        kept       == IF Len(unshifted) > WarningCapacity
                      THEN SubSeq(unshifted, 1, WarningCapacity)
                      ELSE unshifted
        s1         == Mutate(s, "warnings")                 \* unshift
        s2         == IF Len(unshifted) > WarningCapacity   \* slice
                      THEN Replace(s1, "warnings") ELSE s1
    IN  Hand(Invoke([s2 EXCEPT !.warnings = kept], "onWarnings", kept),
             "onWarnings", "warnings")

taskTitle(taskId) ==
    CASE taskId = "T1A" -> "Wrap Red Candies"
      [] taskId = "T1B" -> "Wrap Green Candies"
      [] taskId = "T1C" -> "Wrap Blue Candies"
      [] taskId = "T2A" -> "Assemble Candy Boxes"
      [] taskId = "T3A" -> "Insert Cardboard"
      [] taskId = "T3B" -> "Apply Adhesive"
      [] taskId = "T3C" -> "Decorative Finishing"
      [] OTHER          -> "Task " \o taskId

\* the key of a task_update: event.subtask_id || event.task_id
taskKeyDefined(event) == Truthy(event, "subtask_id") \/ Has(event, "task_id")
taskKey(event) == IF Truthy(event, "subtask_id") THEN event.subtask_id ELSE event.task_id

buildTask(event) ==
    LET taskId == taskKey(event)
    IN  [id       |-> NumOr(parseIntDigits(replaceNonDigits(taskId)), now),
         title    |-> taskTitle(taskId),
         status   |-> mapTaskStatus(event),
         deadline |-> now + DayMs]

updateTask(s, event) ==
    IF ~taskKeyDefined(event) THEN Throw(s)      \* undefined.replace(...)
    ELSE LET tasks == MapSet(s.tasks, taskKey(event), buildTask(event))
         IN  Invoke([s EXCEPT !.tasks = tasks], "onTasks", MapValues(tasks))

systemStatusOf(event) ==
    IF ~Has(event, "status") THEN "Operational"
    ELSE CASE event.status = "idle"                 -> "Operational"
           [] event.status = "waiting"              -> "Operational"
           [] event.status = "cleaning"             -> "Operational"
           [] event.status = "executing"            -> "Operational"
           [] event.status = "waiting_confirmation" -> "Warning"
           [] event.status = "completing"           -> "Operational"
           [] event.status = "task_completed"       -> "Operational"
           [] event.status = "error"                -> "Critical"
           [] OTHER                                 -> "Operational"

updateSystemStatus(s, event) ==
    LET systemStatus == systemStatusOf(event)
        s1 == [Replace(s, "sensor") EXCEPT !.sensor = [@ EXCEPT !.status = systemStatus]]
        s2 == IF Has(event, "status") /\ event.status \in {"waiting_confirmation", "error"}
              THEN addWarning(s1,
                     [severity  |-> IF event.status = "error" THEN "high" ELSE "medium",
                      message   |-> IF Truthy(event, "message") THEN event.message
                                    ELSE "System status: " \o event.status,
                      timestamp |-> event.timestamp * 1000])
              ELSE s1
        s3 == Hand(Invoke(s2, "onSensorData", s2.sensor), "onSensorData", "sensor")
    IN  Invoke(s3, "onSystemStatus", systemStatus)

handleRuleEvaluation(s, event) ==
    IF Has(event, "satisfied") /\ event.satisfied THEN s
    ELSE IF ~Truthy(event, "details") /\ ~Has(event, "rule_id")
    THEN Throw(s)                                \* undefined.toLowerCase()
    ELSE addWarning(s,
           [severity  |-> mapSeverity(IF Truthy(event, "details") THEN event.details
                                      ELSE event.rule_id),
            message   |-> IF Truthy(event, "details") THEN event.details
                          ELSE "Rule " \o (IF Has(event, "rule_id") THEN event.rule_id
                                           ELSE "undefined") \o " evaluation failed",
            timestamp |-> event.timestamp * 1000])

\* faulty variant of updateSystemState: the transition also sets the status
updateSystemState_SetsStatus(s, event) ==
    LET toState == IF Has(event, "to_state") THEN event.to_state ELSE ""
        sensor  == IF toState = "executing_task"
                   THEN [s.sensor EXCEPT !.powerUsage = @ + 5, !.powerUsageChange = 5,
                                         !.status = "Warning"]
                   ELSE IF toState = "cleaning"
                   THEN [s.sensor EXCEPT !.powerUsage = @ - 3, !.powerUsageChange = -3,
                                         !.status = "Warning"]
                   ELSE s.sensor
        s1      == IF toState \in {"executing_task", "cleaning"} THEN Mutate(s, "sensor")
                   ELSE s
    IN  Hand(Invoke([s1 EXCEPT !.sensor = sensor], "onSensorData", sensor),
             "onSensorData", "sensor")

updateSystemState(s, event) ==
    LET toState == IF Has(event, "to_state") THEN event.to_state ELSE ""
        sensor  == IF toState = "executing_task"
                   THEN [s.sensor EXCEPT !.powerUsage = @ + 5, !.powerUsageChange = 5]
                   ELSE IF toState = "cleaning"
                   THEN [s.sensor EXCEPT !.powerUsage = @ - 3, !.powerUsageChange = -3]
                   ELSE s.sensor
        s1      == IF toState \in {"executing_task", "cleaning"} THEN Mutate(s, "sensor")
                   ELSE s
    IN  Hand(Invoke([s1 EXCEPT !.sensor = sensor], "onSensorData", sensor),
             "onSensorData", "sensor")

updatePerformanceMetrics(s, event) ==
    IF ~Has(event, "metrics") THEN Throw(s)      \* undefined.task_completion_time
    ELSE IF Has(event.metrics, "task_completion_time") /\ event.metrics.task_completion_time # 0
            /\ Truthy(event.metrics, "subtask_id")
    THEN addWarning(s,
           [severity  |-> "low",
            message   |-> "Task " \o event.metrics.subtask_id \o " completed in "
                          \o toFixed1(event.metrics.task_completion_time) \o "s",
            timestamp |-> now])
    ELSE s

\* faulty variant of handleManagementMessage: a default branch that reports the
\* event it does not know
handleManagementMessage_DefaultWarns(s, message) ==
    IF ~Has(message, "type") THEN s
    ELSE CASE message.type = "system_status"       -> updateSystemStatus(s, message)
           [] message.type = "task_update"         -> updateTask(s, message)
           [] message.type = "rule_evaluation"     -> handleRuleEvaluation(s, message)
           [] message.type = "state_transition"    -> updateSystemState(s, message)
           [] message.type = "user_action"         -> s
           [] message.type = "performance_metrics" -> updatePerformanceMetrics(s, message)
           [] OTHER -> addWarning(s, [severity |-> "low", message |-> "Unknown event",
                                      timestamp |-> now])

handleManagementMessage(s, message) ==
    IF ~Has(message, "type") THEN s
    ELSE CASE message.type = "system_status"       -> updateSystemStatus(s, message)
           [] message.type = "task_update"         -> updateTask(s, message)
           [] message.type = "rule_evaluation"     -> handleRuleEvaluation(s, message)
           [] message.type = "state_transition"    -> updateSystemState(s, message)
           [] message.type = "user_action"         -> s
           [] message.type = "performance_metrics" -> updatePerformanceMetrics(s, message)
           [] OTHER                                -> s

\* the configured topics (mqtt.config.ts)
ManagementTopic == "management/interface"
ProjectorTopic  == "projector/control"
TelemetryTopic  == "v1/devices/me/telemetry"

\* JSON.parse(payload.toString()): a payload is either text that is no JSON
\* document, [json |-> FALSE], or the document of an object, [json |-> TRUE, value |-> obj]
JSONparseThrows(payload) == ~payload.json
JSONparse(payload) == payload.value

\* the body of the try block of handleMessage
handleMessageBody(s, topic, payload) ==
    IF JSONparseThrows(payload) THEN Throw(s)
    ELSE CASE topic = ManagementTopic -> handleManagementMessage(s, JSONparse(payload))
           [] topic = ProjectorTopic  -> s      \* handleProjectorMessage only logs
           [] topic = TelemetryTopic  -> s      \* handleTelemetryMessage only logs
           [] OTHER                   -> s

\* faulty variant of catchAll: the exception is thrown on
catchAll_Rethrows(s) == s

\* try { ... } catch (error) { console.error(...) }: the exception is swallowed
catchAll(s) == [s EXCEPT !.threw = FALSE]

handleMessage(s, topic, payload) == catchAll(handleMessageBody(s, topic, payload))

----------------------------------------------------------------------------
\* MqttService: connection lifecycle
\*
\* clients[h] is the state of the mqtt.js client with handle h:
\*   "free"        no client object has this handle
\*   "connecting"  created by mqtt.connect, or reconnecting, no CONNACK yet
\*   "connected"
\*   "offline"     its stream closed; it retries on its own (reconnectPeriod)
\*   "closing"     ended by end(true); the close event of its destroyed stream
\*                 is still to come
\* A handle is free again once its client was ended and has emitted that event.

AllCallbacks == {"onSensorData", "onTasks", "onWarnings", "onSystemStatus",
                 "onConnectionChange"}

\* the data stores as the record the handlers work on
Stores == [tasks |-> currentTasks, warnings |-> currentWarnings,
           sensor |-> currentSensorData, calls |-> <<>>, threw |-> FALSE,
           shared |-> shared, dirty |-> {}]

\* lastEvt: the operation; whether it was the event of a client already ended
\* by disconnect(); the delay of the timer it scheduled (0: none); whether it
\* called client.reconnect() and, if so, whether from a timer of a connection
\* torn down since (staleTimer); for a message, its topic and payload
NoPayload == [json |-> FALSE, none |-> TRUE]
NoEvt == [op |-> "none", afterEnd |-> FALSE, delay |-> 0, reconnected |-> FALSE,
          staleTimer |-> FALSE, topic |-> "", payload |-> NoPayload]
Evt(op, c) == [NoEvt EXCEPT !.op = op, !.afterEnd = (clients[c] = "closing")]

Live(c) == clients[c] \in {"connecting", "connected", "offline"}

ConnectionChange(connected) ==
    IF "onConnectionChange" \in callbacks
    THEN <<[cb |-> "onConnectionChange", arg |-> connected]>>
    ELSE <<>>

\* faulty variant of reconnectDelay: the delay doubles with each attempt, capped at 30 s
reconnectDelay_Doubling(attempts) == Min(ReconnectBaseMs * 2 ^ (attempts - 1), 30000)

\* delay of the timer scheduled for the given (already incremented) attempt
reconnectDelay(attempts) == ReconnectBaseMs * attempts

\* the handle setTimeout returns: handles are opaque, so one is used again once
\* no pending timer carries it and this.reconnectTimeout does not hold it
newTimer ==
    CHOOSE h \in 1..(MaxTimers + 1) :
        /\ h # reconnectTimeout /\ \A t \in timers : t.id # h
        /\ \A g \in 1..(h - 1) : g = reconnectTimeout \/ \E t \in timers : t.id = g

\* faulty variant of handleReconnect: the attempts are not limited
handleReconnect_NoLimit(c) ==
    /\ reconnectAttempts' = reconnectAttempts + 1
    /\ timers' = timers \cup {[id    |-> newTimer,
                               stale |-> clients[c] = "closing"]}
    /\ reconnectTimeout' = newTimer
    /\ lastEvt' = [Evt("close", c) EXCEPT
                      !.delay = reconnectDelay(reconnectAttempts + 1)]

\* handleReconnect(), run by the close handler of client c
handleReconnect(c) ==
    IF reconnectAttempts < maxReconnectAttempts
    THEN /\ reconnectAttempts' = reconnectAttempts + 1
         /\ timers' = timers \cup {[id    |-> newTimer,
                                    stale |-> clients[c] = "closing"]}
         /\ reconnectTimeout' = newTimer
         /\ lastEvt' = [Evt("close", c) EXCEPT
                           !.delay = reconnectDelay(reconnectAttempts + 1)]
    ELSE /\ lastEvt' = Evt("close", c)          \* console.error only
         /\ UNCHANGED <<reconnectAttempts, timers, reconnectTimeout>>

----------------------------------------------------------------------------
\* ManagementInterfaceProvider (ManagementInterfaceContext.tsx): the React
\* state that the callbacks passed to mqttService.connect() update.  Of
\* DataState only the fields that MqttService's callbacks or the provider's
\* own operations write are kept.

defaultConnectionStatus ==
    [mqtt_connected |-> FALSE, last_data_received |-> 0, message_count |-> 0,
     error_count |-> 0]

defaultDataState ==
    [sensorData |-> [temperature |-> 250, temperatureChange |-> 0,
                     humidity |-> 500, humidityChange |-> 0,
                     pressure |-> 7600, powerUsage |-> 40, powerUsageChange |-> 0,
                     status |-> "Operational", maintenanceDate |-> 1 + WeekMs],
     tasks |-> <<>>, warnings |-> <<>>, systemStatus |-> "Operational",
     isConnected |-> FALSE, connectionStatus |-> defaultConnectionStatus,
     lastUpdate |-> 0]

\* updateSensorData, updateTasks, updateWarnings, updateSystemStatus and
\* updateConnectionStatus: the state after the setDataState updater of one
\* callback invocation
ApplyCall(d, call) ==
    CASE call.cb = "onSensorData" ->
            [d EXCEPT !.sensorData = call.arg, !.systemStatus = call.arg.status,
                      !.lastUpdate = now]
      [] call.cb = "onTasks" ->
            [d EXCEPT !.tasks = call.arg, !.lastUpdate = now]
      [] call.cb = "onWarnings" ->
            [d EXCEPT !.warnings = call.arg, !.lastUpdate = now]
      [] call.cb = "onSystemStatus" ->
            [d EXCEPT !.systemStatus = call.arg, !.lastUpdate = now]
      [] call.cb = "onConnectionChange" ->
            [d EXCEPT !.isConnected = call.arg,
                      !.connectionStatus.mqtt_connected = call.arg,
                      !.connectionStatus.last_data_received =
                          IF call.arg THEN now ELSE @,
                      !.lastUpdate = now]

RECURSIVE ApplyCalls(_, _)
ApplyCalls(d, cs) ==
    IF cs = <<>> THEN d ELSE ApplyCalls(ApplyCall(d, Head(cs)), Tail(cs))

\* the catch block of connectToMqtt, run when the awaited connect() rejects
connectFailed(d) ==
    [d EXCEPT !.isConnected = FALSE,
              !.connectionStatus.mqtt_connected = FALSE,
              !.connectionStatus.error_count = @ + 1]

\* the entries of connectToMqtt's dependency list that change between renders
\* (the update functions and mqttService are stable)
Deps(d) == [tasks |-> Len(d.tasks), lastUpdate |-> d.lastUpdate]

\* what a step of MqttService does to the provider: the callbacks it invoked
\* update the state and, when the step rejected the awaited connect()
\* promise, the catch block runs
ProviderStep(rejected) ==
    /\ mounted' = mounted
    /\ effectDeps' = effectDeps
    /\ removedWarnings' = removedWarnings
    /\ dataState' = IF ~mounted THEN dataState
                    ELSE LET d == ApplyCalls(dataState, calls')
                         IN  IF rejected THEN connectFailed(d) ELSE d

\* a step that neither starts a simulation nor touches a shared object
Quiet == UNCHANGED <<simulating, simTicks, shared>> /\ dirty' = {}

----------------------------------------------------------------------------
\* App: initializeApp awaits the race of fetchAggregatorMetrics(), wrapped so
\* that its rejection resolves too, against a timeout that rejects after 5 s.

\* what App renders
Screen ==
    IF isLoading THEN "LoadingScreen"
    ELSE IF appError # "" THEN "Application Error"
    ELSE "Dashboard"

\* the fetchAggregatorMetrics() promise settles: both outcomes resolve the
\* wrapper, and the code after the await runs if the race was still pending
fetchSettles(outcome) ==
    /\ fetch = "pending"
    /\ fetch' = outcome
    /\ IF race = "pending"
       THEN /\ race' = "resolved"
            /\ isLoading' = FALSE
       ELSE UNCHANGED <<race, isLoading>>
    /\ UNCHANGED <<appError, appTimer>>
    /\ UNCHANGED <<mqttSide, now, wsVars, miVars>>

\* the 5 s timeout fires: it rejects the race if that is still pending, and
\* the catch block of initializeApp runs
appTimeoutFires ==
    /\ appTimer
    /\ appTimer' = FALSE
    /\ IF race = "pending"
       THEN /\ race' = "rejected"
            /\ appError' = "Initialization timeout"
            /\ isLoading' = FALSE
       ELSE UNCHANGED <<race, appError, isLoading>>
    /\ UNCHANGED fetch
    /\ UNCHANGED <<mqttSide, now, wsVars, miVars>>

----------------------------------------------------------------------------
\* ManagementInterface

\* the listener functions; the one named "thrower" throws when invoked
ListenerNames == {"a", "b", "thrower"}

NoEvent == [type |-> "none"]

\* a number that is no integer, as numerator and denominator
Ratio(n, d) == [num |-> n, den |-> d]

\* faulty variant of publish: the exception of a listener is caught and the
\* loop goes on
publish_CatchesErrors(ls, event) ==
    [calls |-> [i \in 1..Len(ls) |-> [listener |-> ls[i], event |-> event]],
     threw |-> FALSE]

\* publish(event): the listeners are invoked in the order of this.listeners;
\* the exception of a listener ends the loop and propagates
publish(ls, event) ==
    LET throwers == {i \in 1..Len(ls) : ls[i] = "thrower"}
        last     == IF throwers = {} THEN Len(ls)
                    ELSE CHOOSE i \in throwers : \A j \in throwers : i <= j
    IN  [calls |-> [i \in 1..last |-> [listener |-> ls[i], event |-> event]],
         threw |-> throwers # {}]

\* what no step of the ManagementInterface leaves as it is
miQuiet == UNCHANGED <<mqttSide, now, wsVars, appVars>>

\* subscribe(listener)
miSubscribe(l) ==
    /\ Len(listeners) < MaxListeners
    /\ listeners' = Append(listeners, l)
    /\ miCalls' = <<>>
    /\ miThrew' = FALSE
    /\ miLast' = NoEvent
    /\ UNCHANGED <<miSent, miGot>>
    /\ miQuiet

\* faulty variant of unsubscribe: only the first occurrence is removed
miUnsubscribe_RemovesFirst(l) ==
    /\ listeners' = IF \E i \in 1..Len(listeners) : listeners[i] = l
                     THEN LET k == CHOOSE i \in 1..Len(listeners) :
                                      /\ listeners[i] = l
                                      /\ \A j \in 1..(i - 1) : listeners[j] # l
                          IN  SubSeq(listeners, 1, k - 1)
                                 \o SubSeq(listeners, k + 1, Len(listeners))
                     ELSE listeners
    /\ miCalls' = <<>>
    /\ miThrew' = FALSE
    /\ miLast' = NoEvent
    /\ UNCHANGED <<miSent, miGot>>
    /\ miQuiet

\* unsubscribe(listener): every occurrence is filtered out
miUnsubscribe(l) ==
    /\ listeners' = SelectSeq(listeners, LAMBDA x : x # l)
    /\ miCalls' = <<>>
    /\ miThrew' = FALSE
    /\ miLast' = NoEvent
    /\ UNCHANGED <<miSent, miGot>>
    /\ miQuiet

\* the part the four send* methods share: this.publish(event)
send(event) ==
    /\ miSent < MaxSends
    /\ miSent' = miSent + 1
    /\ miLast' = event
    /\ \E r \in {publish(listeners, event)} :
          /\ miCalls' = r.calls
          /\ miThrew' = r.threw
          /\ miGot' = [l \in ListenerNames |->
                          miGot[l] \o [i \in 1..Cardinality({k \in 1..Len(r.calls) :
                                                              r.calls[k].listener = l})
                                         |-> miSent + 1]]
    /\ UNCHANGED listeners
    /\ miQuiet

\* Date.now() / 1000
nowSeconds == Ratio(now, 1000)

sendSystemStatus(status, message) ==
    send([timestamp |-> nowSeconds, type |-> "system_status", status |-> status,
          message |-> message])

sendStateChange(fromState, toState) ==
    send([timestamp |-> nowSeconds, type |-> "state_transition", from_state |-> fromState,
          to_state |-> toState])

\* faulty variant of sendTaskUpdate: the progress is clamped to [0, 1]
sendTaskUpdate_Clamps(taskId, subtaskId, status, progress) ==
    send([timestamp |-> nowSeconds, type |-> "task_update", task_id |-> taskId,
          subtask_id |-> subtaskId, status |-> status,
          progress |-> Ratio(Max(0, Min(100, (progress + 5) \div 10)), 100)])

\* progress is given in thousandths; Math.round(progress * 100) / 100
sendTaskUpdate(taskId, subtaskId, status, progress) ==
    send([timestamp |-> nowSeconds, type |-> "task_update", task_id |-> taskId,
          subtask_id |-> subtaskId, status |-> status,
          progress |-> Ratio((progress + 5) \div 10, 100)])

sendRuleEvaluation(ruleId, satisfied, details) ==
    send([timestamp |-> nowSeconds, type |-> "rule_evaluation", rule_id |-> ruleId,
          satisfied |-> satisfied, details |-> details])

----------------------------------------------------------------------------
\* connect(callbacks): a new client is created and its handlers registered;
\* a client the service already holds is neither ended nor detached
newClient ==
    CHOOSE h \in 1..MaxClients :
        clients[h] = "free" /\ \A g \in 1..(h - 1) : clients[g] # "free"

connect ==
    /\ \E h \in 1..MaxClients : clients[h] = "free"
    /\ LET h == CHOOSE h \in 1..MaxClients :
                   clients[h] = "free" /\ \A g \in 1..(h - 1) : clients[g] # "free"
       IN  /\ clients' = [clients EXCEPT ![h] = "connecting"]
           /\ client' = h
    /\ callbacks' = AllCallbacks
    /\ calls' = <<>>
    /\ escaped' = FALSE
    /\ lastEvt' = [NoEvt EXCEPT !.op = "connect"]
    /\ consecDisc' = 0
    /\ UNCHANGED <<wsVars, appVars, miVars>>
    /\ Quiet
    /\ ProviderStep(FALSE)
    /\ awaiting' = IF mounted
                   THEN awaiting \cup {[c |-> newClient, noTasks |-> dataState.tasks = <<>>]}
                   ELSE awaiting
    /\ UNCHANGED simTimers
    /\ UNCHANGED <<isConnected, reconnectAttempts, reconnectTimeout, currentTasks,
                   currentWarnings, currentSensorData, timers, now,
                   added, lastUpdate, handled>>

\* the 'connect' event of client c (MqttService.tsx:132-139)
onConnect(c) ==
    /\ clients[c] \in {"connecting", "offline"}
    /\ clients' = [clients EXCEPT ![c] = "connected"]
    /\ isConnected' = TRUE
    /\ reconnectAttempts' = 0
    /\ calls' = ConnectionChange(TRUE)
    /\ escaped' = FALSE
    /\ lastEvt' = Evt("connect_event", c)
    /\ consecDisc' = 0
    /\ UNCHANGED <<wsVars, appVars, miVars>>
    /\ Quiet
    /\ ProviderStep(FALSE)
    /\ awaiting' = {a \in awaiting : a.c # c}                   \* resolve()
    /\ simTimers' = simTimers \cup
                       {[kind |-> "ifNoData", noTasks |-> a.noTasks] :
                            a \in {b \in awaiting : b.c = c}}
    /\ UNCHANGED <<client, callbacks, reconnectTimeout, currentTasks, currentWarnings,
                   currentSensorData, timers, now, added, lastUpdate, handled>>

\* an event of client c settles a connect() promise that the provider awaits
Rejects(c) == \E a \in awaiting : a.c = c

\* the 'error' event of client c (MqttService.tsx:141-146); it rejects the
\* promise of the connect() call that created c if that is still pending
onError(c) ==
    /\ Live(c)
    /\ isConnected' = FALSE
    /\ calls' = ConnectionChange(FALSE)
    /\ escaped' = FALSE
    /\ lastEvt' = Evt("error", c)
    /\ consecDisc' = 0
    /\ UNCHANGED <<wsVars, appVars, miVars>>
    /\ Quiet
    /\ Rejects(c) => dataState.connectionStatus.error_count < MaxErrors
    /\ ProviderStep(Rejects(c))
    /\ awaiting' = {a \in awaiting : a.c # c}                   \* reject(error)
    /\ simTimers' = IF Rejects(c)
                    THEN simTimers \cup {[kind |-> "fallback", noTasks |-> TRUE]}
                    ELSE simTimers
    /\ UNCHANGED <<client, callbacks, reconnectAttempts, reconnectTimeout, currentTasks,
                   currentWarnings, currentSensorData, clients, timers, now,
                   added, lastUpdate, handled>>

\* the 'close' event of client c (MqttService.tsx:148-153).  A live client
\* emits it whenever its stream closes (also after each failed attempt of its
\* own reconnect period); a client ended by end(true) emits it once more when
\* its destroyed stream closes.
onClose(c) ==
    /\ Live(c) \/ clients[c] = "closing"
    /\ reconnectAttempts < maxReconnectAttempts => Cardinality(timers) < MaxTimers
    /\ clients' = [clients EXCEPT ![c] = IF @ = "closing" THEN "free" ELSE "offline"]
    /\ isConnected' = FALSE
    /\ calls' = ConnectionChange(FALSE)
    /\ handleReconnect(c)
    /\ escaped' = FALSE
    /\ consecDisc' = 0
    /\ UNCHANGED <<wsVars, appVars, miVars>>
    /\ Quiet
    /\ ProviderStep(FALSE)
    /\ awaiting' = IF clients[c] = "closing" THEN {a \in awaiting : a.c # c} ELSE awaiting
    /\ UNCHANGED simTimers
    /\ UNCHANGED <<client, callbacks, currentTasks, currentWarnings, currentSensorData,
                   now, added, lastUpdate, handled>>

\* the 'offline' event of client c (MqttService.tsx:155-159)
onOffline(c) ==
    /\ clients[c] = "offline"
    /\ isConnected' = FALSE
    /\ calls' = ConnectionChange(FALSE)
    /\ escaped' = FALSE
    /\ lastEvt' = Evt("offline", c)
    /\ consecDisc' = 0
    /\ UNCHANGED <<wsVars, appVars, miVars>>
    /\ Quiet
    /\ ProviderStep(FALSE)
    /\ UNCHANGED <<awaiting, simTimers>>
    /\ UNCHANGED <<client, callbacks, reconnectAttempts, reconnectTimeout, currentTasks,
                   currentWarnings, currentSensorData, clients, timers, now,
                   added, lastUpdate, handled>>

\* the callback of a timer scheduled by handleReconnect (MqttService.tsx:178-182)
timerFires(t) ==
    /\ t \in timers
    /\ timers' = timers \ {t}
    /\ IF client # 0 /\ ~isConnected
       THEN /\ clients' = [clients EXCEPT ![client] = "connecting"]   \* client.reconnect()
            /\ lastEvt' = [NoEvt EXCEPT !.op = "timer", !.reconnected = TRUE,
                                        !.staleTimer = t.stale]
       ELSE /\ UNCHANGED clients
            /\ lastEvt' = [NoEvt EXCEPT !.op = "timer"]
    /\ calls' = <<>>
    /\ escaped' = FALSE
    /\ consecDisc' = 0
    /\ UNCHANGED <<wsVars, appVars, miVars>>
    /\ Quiet
    /\ ProviderStep(FALSE)
    /\ UNCHANGED <<awaiting, simTimers>>
    /\ UNCHANGED <<mqttVars, now, added, lastUpdate, handled>>

\* faulty variant of disconnect: this.client is not reset to null
disconnect_KeepsClient ==
    /\ timers' = {[t EXCEPT !.stale = TRUE] : t \in {u \in timers : u.id # reconnectTimeout}}
    /\ reconnectTimeout' = 0
    /\ IF client # 0
       THEN /\ clients' = [clients EXCEPT ![client] = "closing"]
            /\ isConnected' = FALSE
            /\ calls' = ConnectionChange(FALSE)
       ELSE /\ UNCHANGED <<clients, isConnected>>
            /\ calls' = <<>>
    /\ escaped' = FALSE
    /\ lastEvt' = [NoEvt EXCEPT !.op = "disconnect"]
    /\ consecDisc' = Min(consecDisc + 1, 2)
    /\ UNCHANGED <<wsVars, appVars, miVars>>
    /\ Quiet
    /\ ProviderStep(FALSE)
    /\ UNCHANGED <<awaiting, simTimers>>
    /\ UNCHANGED <<client, callbacks, reconnectAttempts, currentTasks, currentWarnings,
                   currentSensorData, now, added, lastUpdate, handled>>

\* disconnect() (MqttService.tsx:415-427)
disconnect ==
    /\ LET cleared == IF reconnectTimeout # 0
                      THEN {t \in timers : t.id # reconnectTimeout}     \* clearTimeout
                      ELSE timers
       IN  timers' = {[t EXCEPT !.stale = TRUE] : t \in cleared}
    /\ reconnectTimeout' = 0
    /\ IF client # 0
       THEN /\ clients' = [clients EXCEPT ![client] = "closing"]        \* client.end(true)
            /\ client' = 0
            /\ isConnected' = FALSE
            /\ calls' = ConnectionChange(FALSE)
       ELSE /\ UNCHANGED <<clients, client, isConnected>>
            /\ calls' = <<>>
    /\ escaped' = FALSE
    /\ lastEvt' = [NoEvt EXCEPT !.op = "disconnect"]
    /\ consecDisc' = Min(consecDisc + 1, 2)
    /\ UNCHANGED <<wsVars, appVars, miVars>>
    /\ Quiet
    /\ ProviderStep(FALSE)
    /\ UNCHANGED <<awaiting, simTimers>>
    /\ UNCHANGED <<callbacks, reconnectAttempts, currentTasks, currentWarnings,
                   currentSensorData, now, added, lastUpdate, handled>>

\* the 'message' event of client c (MqttService.tsx:165, 208-227)
onMessage(c, topic, payload) ==
    /\ clients[c] = "connected"
    /\ \E r \in {handleMessage(Stores, topic, payload)} :
         LET warned == {i \in 1..Len(r.calls) : r.calls[i].cb = "onWarnings"}
             tasked == {i \in 1..Len(r.calls) : r.calls[i].cb = "onTasks"}
             event  == JSONparse(payload)
         IN  /\ currentTasks' = r.tasks
             /\ currentWarnings' = r.warnings
             /\ currentSensorData' = r.sensor
             /\ calls' = r.calls
             /\ escaped' = r.threw
             /\ shared' = r.shared
             /\ dirty' = r.dirty
             /\ added' = IF warned = {} THEN added
                         ELSE Append(added, r.calls[CHOOSE i \in warned : TRUE].arg[1])
             /\ lastUpdate' = IF tasked = {} THEN lastUpdate
                              ELSE [k \in DOMAIN lastUpdate \cup {taskKey(event)} |->
                                       IF k = taskKey(event) THEN buildTask(event)
                                       ELSE lastUpdate[k]]
    /\ handled' = handled + 1
    /\ lastEvt' = [Evt("message", c) EXCEPT !.topic = topic, !.payload = payload]
    /\ consecDisc' = 0
    /\ UNCHANGED <<wsVars, appVars, miVars>>
    /\ UNCHANGED <<simulating, simTicks>>
    /\ ProviderStep(FALSE)
    /\ UNCHANGED <<awaiting, simTimers>>
    /\ UNCHANGED <<client, callbacks, isConnected, reconnectAttempts, reconnectTimeout,
                   clients, timers, now>>

\* the values Math.random() contributes to one run of the simulation, in
\* tenths: (Math.random() - 0.5) * 2 lies in [-1, 1), * 3 in [-1.5, 1.5) and
\* * 0.5 in [-0.25, 0.25)
SimDraws ==
    {[dT |-> -10, dH |-> -15, cT |-> -10, cH |-> -15, cP |-> -2],
     [dT |-> 9, dH |-> 14, cT |-> 0, cH |-> 0, cP |-> 2]}

\* the body of the interval callback of simulateSensorUpdates while connected
simulationStep(s, rnd) ==
    LET sensor == [s.sensor EXCEPT
                     !.temperature = Max(200, Min(350, @ + rnd.dT)),
                     !.humidity = Max(300, Min(700, @ + rnd.dH)),
                     !.temperatureChange = rnd.cT,
                     !.humidityChange = rnd.cH,
                     !.powerUsageChange = rnd.cP]
    IN  Hand(Invoke([Mutate(s, "sensor") EXCEPT !.sensor = sensor], "onSensorData", sensor),
             "onSensorData", "sensor")

\* the interval callback of simulateSensorUpdates fires (every 10 s)
simulationTick(rnd) ==
    /\ simulating > 0
    /\ simTicks < MaxSimTicks
    /\ simTicks' = simTicks + 1
    /\ IF ~isConnected
       THEN /\ simulating' = simulating - 1                 \* clearInterval
            /\ calls' = <<>>
            /\ dirty' = {}
            /\ UNCHANGED <<currentSensorData, shared>>
       ELSE \E r \in {simulationStep(Stores, rnd)} :
               /\ currentSensorData' = r.sensor
               /\ calls' = r.calls
               /\ shared' = r.shared
               /\ dirty' = r.dirty
               /\ UNCHANGED simulating
    /\ escaped' = FALSE
    /\ lastEvt' = [NoEvt EXCEPT !.op = "simulation"]
    /\ consecDisc' = 0
    /\ UNCHANGED <<wsVars, appVars, miVars>>
    /\ ProviderStep(FALSE)
    /\ UNCHANGED <<awaiting, simTimers>>
    /\ UNCHANGED <<client, callbacks, isConnected, reconnectAttempts, reconnectTimeout,
                   currentTasks, currentWarnings, clients, timers, now, added, lastUpdate,
                   handled>>

\* a setTimeout callback of connectToMqtt fires: 30 s after connect()
\* resolved it starts the simulation if the closure saw no tasks (its
\* lastUpdate is older than the 30 s the timer took), 5 s after connect()
\* rejected it starts the simulation
provTimerFires(t) ==
    /\ t \in simTimers
    /\ simTimers' = simTimers \ {t}
    /\ LET starts == t.kind = "fallback" \/ t.noTasks
       IN  /\ starts => simulating < MaxSims
           /\ simulating' = IF starts THEN simulating + 1    \* simulateSensorUpdates()
                             ELSE simulating
    /\ calls' = <<>>
    /\ escaped' = FALSE
    /\ lastEvt' = [NoEvt EXCEPT !.op = "provTimer"]
    /\ consecDisc' = 0
    /\ dirty' = {}
    /\ UNCHANGED <<wsVars, appVars, miVars>>
    /\ ProviderStep(FALSE)
    /\ UNCHANGED <<awaiting, simTicks, shared>>
    /\ UNCHANGED <<mqttVars, clients, timers, now, added, lastUpdate, handled>>

\* getConnectionHealth() of a provider whose state is d, called at time t.
\* errorRate = error_count / Math.max(1, message_count); errorRate > 0.1 is
\* 10 * error_count > Math.max(1, message_count)
getConnectionHealth(d, t) ==
    LET timeSinceLastUpdate == t - d.lastUpdate
        errors   == d.connectionStatus.error_count
        messages == Max(1, d.connectionStatus.message_count)
    IN  IF ~d.isConnected THEN "critical"
        ELSE IF timeSinceLastUpdate > 60000 \/ 10 * errors > messages THEN "warning"
        ELSE IF timeSinceLastUpdate > 300000 \/ 10 * errors > 3 * messages THEN "critical"
        ELSE "healthy"

\* the interval callback of the health-check effect fires, 30 s after the
\* effect last ran: when the health is critical and the provider connected
\* it calls retryConnection(), that is reconnect(): mqttService.disconnect()
\* and, through connectToMqtt(), mqttService.connect(...)
healthCheck ==
    /\ now < MaxHealthChecks * HealthCheckMs
    /\ now' = now + HealthCheckMs
    /\ IF getConnectionHealth(dataState, now') = "critical" /\ dataState.isConnected
       THEN /\ \E h \in 1..MaxClients : clients[h] = "free"
            /\ LET cleared == IF reconnectTimeout # 0
                              THEN {t \in timers : t.id # reconnectTimeout}
                              ELSE timers
               IN  timers' = {[t EXCEPT !.stale = TRUE] : t \in cleared}
            /\ reconnectTimeout' = 0
            /\ isConnected' = (client = 0 /\ isConnected)
            /\ calls' = IF client # 0 THEN ConnectionChange(FALSE) ELSE <<>>
            /\ clients' = [h \in 1..MaxClients |->
                              IF h = newClient THEN "connecting"
                              ELSE IF h = client THEN "closing" ELSE clients[h]]
            /\ client' = newClient
            /\ callbacks' = AllCallbacks
            /\ awaiting' = awaiting \cup {[c |-> newClient, noTasks |-> dataState.tasks = <<>>]}
            /\ lastEvt' = [NoEvt EXCEPT !.op = "healthReconnect"]
       ELSE /\ calls' = <<>>
            /\ lastEvt' = [NoEvt EXCEPT !.op = "healthCheck"]
            /\ UNCHANGED <<timers, reconnectTimeout, isConnected, clients, client, callbacks,
                           awaiting>>
    /\ escaped' = FALSE
    /\ consecDisc' = 0
    /\ UNCHANGED <<wsVars, appVars, miVars>>
    /\ Quiet
    /\ ProviderStep(FALSE)
    /\ UNCHANGED simTimers
    /\ UNCHANGED <<reconnectAttempts, currentTasks, currentWarnings, currentSensorData,
                   added, lastUpdate, handled>>

\* a call of a management function of the provider: only the React state
\* changes, the MqttService is not told
managementCall(op, warnings) ==
    /\ mounted
    /\ dataState' = [dataState EXCEPT !.warnings = warnings, !.lastUpdate = now]
    /\ removedWarnings' = removedWarnings \cup
                             ({dataState.warnings[i] : i \in 1..Len(dataState.warnings)}
                                 \ {warnings[i] : i \in 1..Len(warnings)})
    /\ calls' = <<>>
    /\ escaped' = FALSE
    /\ lastEvt' = [NoEvt EXCEPT !.op = op]
    /\ consecDisc' = 0
    /\ UNCHANGED <<wsVars, appVars, miVars>>
    /\ Quiet
    /\ UNCHANGED <<mounted, awaiting, simTimers, effectDeps>>
    /\ UNCHANGED <<mqttVars, clients, timers, now, added, lastUpdate, handled>>

\* clearWarnings()
clearWarnings == managementCall("clearWarnings", <<>>)

\* acknowledgeWarning(warningId)
acknowledgeWarning(warningId) ==
    managementCall("acknowledgeWarning",
                   SelectSeq(dataState.warnings, LAMBDA w : w.id # warningId))

\* the initialize-connection effect runs again after a render in which
\* connectToMqtt is a new function, that is, in which an entry of its
\* dependency list changed: the cleanup of the previous run calls
\* mqttService.disconnect(), then connectToMqtt() calls mqttService.connect()
effectRerun ==
    /\ mounted
    /\ Deps(dataState) # effectDeps
    /\ effectDeps' = Deps(dataState)
    /\ \E h \in 1..MaxClients : clients[h] = "free"
    /\ LET cleared == IF reconnectTimeout # 0
                      THEN {t \in timers : t.id # reconnectTimeout}
                      ELSE timers
       IN  timers' = {[t EXCEPT !.stale = TRUE] : t \in cleared}
    /\ reconnectTimeout' = 0
    /\ isConnected' = (client = 0 /\ isConnected)
    /\ calls' = IF client # 0 THEN ConnectionChange(FALSE) ELSE <<>>
    /\ clients' = [h \in 1..MaxClients |->
                      IF h = newClient THEN "connecting"
                      ELSE IF h = client THEN "closing" ELSE clients[h]]
    /\ client' = newClient
    /\ callbacks' = AllCallbacks
    /\ awaiting' = awaiting \cup {[c |-> newClient, noTasks |-> dataState.tasks = <<>>]}
    /\ lastEvt' = [NoEvt EXCEPT !.op = "effect"]
    /\ escaped' = FALSE
    /\ consecDisc' = 0
    /\ UNCHANGED <<wsVars, appVars, miVars>>
    /\ Quiet
    /\ mounted' = mounted
    /\ dataState' = ApplyCalls(dataState, calls')
    /\ UNCHANGED <<simTimers, removedWarnings>>
    /\ UNCHANGED <<reconnectAttempts, currentTasks, currentWarnings, currentSensorData,
                   now, added, lastUpdate, handled>>

\* time passes
Tick ==
    /\ now < MaxClock
    /\ now' = now + 1
    /\ calls' = <<>>
    /\ escaped' = FALSE
    /\ lastEvt' = [NoEvt EXCEPT !.op = "tick"]
    /\ consecDisc' = 0
    /\ UNCHANGED <<wsVars, appVars, miVars>>
    /\ Quiet
    /\ ProviderStep(FALSE)
    /\ UNCHANGED <<awaiting, simTimers>>
    /\ UNCHANGED <<mqttVars, clients, timers, added,
                   lastUpdate, handled>>

----------------------------------------------------------------------------
\* dataTransform.ts and validation.ts: conversions used by DataService

\* parseInt of a string: the value of its leading decimal digits, NaN if it
\* has none (the inputs carry no sign and no leading white space)
RECURSIVE leadingDigits(_)
leadingDigits(s) ==
    IF Len(s) = 0 \/ IndexIn(DigitChars, CharAt(s, 1)) = 0 THEN ""
    ELSE CharAt(s, 1) \o leadingDigits(SubSeq(s, 2, Len(s)))

parseInt(s) == parseIntDigits(leadingDigits(s))

\* isValidMQTTMessage(data): timestamp and type are present (a timestamp is a
\* number and a type a string in every message of the model)
isValidMQTTMessage(data) == Has(data, "timestamp") /\ Has(data, "type")

\* `${x}` of an optional string field
Interpolate(obj, f) == IF Has(obj, f) THEN obj[f] ELSE "undefined"

\* mqttMessageToWarning(message): <<>> for null.  Math.random() is rnd.
mqttMessageToWarning(message, rnd) ==
    IF message.type = "rule_evaluation"
       /\ ~(Has(message, "satisfied") /\ message.satisfied)
    THEN <<[id        |-> [ms |-> now, frac |-> rnd],
            severity  |-> "high",
            message   |-> "Rule violation: " \o Interpolate(message, "rule_id") \o " - "
                          \o (IF Truthy(message, "details") THEN message.details
                              ELSE "No details provided"),
            timestamp |-> message.timestamp]>>
    ELSE IF message.type = "system_status"
            /\ Has(message, "status")
            /\ toLowerCase(message.status) \in {"critical", "error"}
    THEN <<[id        |-> [ms |-> now, frac |-> rnd],
            severity  |-> "high",
            message   |-> IF Truthy(message, "message") THEN message.message
                          ELSE "System status: " \o message.status,
            timestamp |-> message.timestamp]>>
    ELSE <<>>

mapMQTTStatusToTaskStatus(mqttStatus) ==
    LET st == toLowerCase(mqttStatus)
    IN  CASE st \in {"started", "in_progress", "executing", "waiting_confirmation"}
                                 -> "in-progress"
          [] st = "completed"    -> "completed"
          [] OTHER               -> "pending"

\* mqttMessageToTask(message): <<>> for null
mqttMessageToTask(message) ==
    IF message.type = "task_update" /\ Truthy(message, "task_id")
       /\ Truthy(message, "subtask_id")
    THEN <<[id       |-> NumOr(parseInt(message.task_id), now),
            title    |-> message.subtask_id,
            status   |-> mapMQTTStatusToTaskStatus(
                             IF Truthy(message, "status") THEN message.status
                             ELSE "pending"),
            deadline |-> now + DayMs]>>
    ELSE <<>>

mapStringToSystemStatus(status) ==
    CASE status \in {"idle", "active"} -> "Operational"
      [] status = "error"              -> "Critical"
      [] OTHER                         -> "Warning"

----------------------------------------------------------------------------
\* DataService (dataService.ts).  The handlers are operators on a record
\*   d = [tasks, warnings, sensor, monitor, subs, notified]
\* holding the caches, the ConnectionMonitor, the subscribers map and the
\* callbacks invoked so far.

Channels == {"sensorData", "tasks", "warnings", "connection"}

\* notifySubscribers(channel, data)
notifySubscribers(d, channel, data) ==
    IF channel \in DOMAIN d.subs
    THEN [d EXCEPT !.notified =
             @ \o [i \in 1..d.subs[channel] |-> [channel |-> channel, data |-> data]]]
    ELSE d

\* ConnectionMonitor.recordActivity(); its one listener is the one that
\* DataService.initialize registered
recordActivity(d) ==
    LET status == [isConnected |-> TRUE, lastSeen |-> now, reconnectAttempts |-> 0]
    IN  notifySubscribers([d EXCEPT !.monitor.status = status], "connection", status)

DefaultSensorData ==
    [temperature |-> 250, temperatureChange |-> 0, humidity |-> 450,
     humidityChange |-> 0, pressure |-> 7600, powerUsage |-> 42,
     powerUsageChange |-> 0, status |-> "Operational", maintenanceDate |-> now + WeekMs]

\* updateSensorDataFromMQTT(message)
updateSensorDataFromMQTT(d, message) ==
    LET base == IF d.sensor = <<>> THEN DefaultSensorData ELSE d.sensor[1]
        u1 == IF Has(message, "temperature")
              THEN [base EXCEPT !.temperatureChange = message.temperature - base.temperature,
                                !.temperature = message.temperature]
              ELSE base
        u2 == IF Has(message, "humidity")
              THEN [u1 EXCEPT !.humidityChange = message.humidity - u1.humidity,
                              !.humidity = message.humidity]
              ELSE u1
        u3 == IF Has(message, "pressure")
              THEN [u2 EXCEPT !.pressure = message.pressure] ELSE u2
        u4 == IF Has(message, "powerUsage")
              THEN [u3 EXCEPT !.powerUsageChange = message.powerUsage - u3.powerUsage,
                              !.powerUsage = message.powerUsage]
              ELSE u3
        updated == IF Truthy(message, "status")
                   THEN [u4 EXCEPT !.status = mapStringToSystemStatus(message.status)]
                   ELSE u4
        hasChanges == \/ \E f \in {"temperature", "humidity", "pressure", "powerUsage"} :
                            Has(message, f)
                      \/ Truthy(message, "status")
    IN  IF hasChanges
        THEN notifySubscribers([d EXCEPT !.sensor = <<updated>>], "sensorData", updated)
        ELSE [d EXCEPT !.sensor = <<base>>]

\* processMQTTMessage(message)
processMQTTMessage(d, message, rnd) ==
    LET warning == mqttMessageToWarning(message, rnd)
        d1 == IF warning # <<>>
              THEN LET cache == warning \o SubSeq(d.warnings, 1,
                                                  Min(Len(d.warnings), DsWarningCapacity - 1))
                   IN  notifySubscribers([d EXCEPT !.warnings = cache], "warnings", cache)
              ELSE d
        task == mqttMessageToTask(message)
        d2 == IF task # <<>>
              THEN LET found == {i \in 1..Len(d1.tasks) : d1.tasks[i].id = task[1].id}
                       cache == IF found # {}
                                THEN [d1.tasks EXCEPT
                                         ![CHOOSE i \in found : \A j \in found : i <= j]
                                             = task[1]]
                                ELSE Append(d1.tasks, task[1])
                   IN  notifySubscribers([d1 EXCEPT !.tasks = cache], "tasks", cache)
              ELSE d1
    IN  IF message.type \in {"telemetry", "sensor_update"}
        THEN updateSensorDataFromMQTT(d2, message)
        ELSE d2

\* handleMQTTMessage(data)
handleMQTTMessage(d, data, rnd) ==
    IF ~isValidMQTTMessage(data) THEN d
    ELSE recordActivity(processMQTTMessage(d, data, rnd))

----------------------------------------------------------------------------
\* the heartbeat interval of the ConnectionMonitor (dataService.ts:60, 86)
heartbeatMs == 30000

\* the period of the monitoring interval (connectionUtils.ts:33)
HeartbeatPeriod == heartbeatMs \div 2

\* the number of heartbeat periods that may pass
MaxHeartbeats == 4

\* ReconnectingWebSocket (connectionUtils.ts:88-179) and the DataService
\* operations that drive it.  A WebSocket is "connecting", "open" or, once
\* close() was called on it, "closing"; its handle is "free" (and may be
\* reused) once its close event has been delivered.

DsStore == [tasks |-> tasksCache, warnings |-> warningsCache, sensor |-> sensorDataCache,
            monitor |-> monitor, subs |-> subscribers, notified |-> <<>>]

NoWsEvt == [op |-> "none", created |-> FALSE, emitted |-> <<>>, delay |-> 0,
            notified |-> <<>>, payload |-> NoPayload]

\* emit(event, data): the events that reach a listener
emit(event) == IF event \in wsListeners THEN <<event>> ELSE <<>>

\* the delay passed to setTimeout by attemptReconnect (connectionUtils.ts:177)
wsReconnectDelay(attempts) == wsReconnectDelayMs * attempts

newSocket ==
    CHOOSE h \in 1..MaxSockets :
        sockets[h] = "free" /\ \A g \in 1..(h - 1) : sockets[g] # "free"

\* ReconnectingWebSocket.connect(): this.ws = new WebSocket(url)
rwsConnect ==
    /\ \E h \in 1..MaxSockets : sockets[h] = "free"
    /\ sockets' = [sockets EXCEPT ![newSocket] = "connecting"]
    /\ ws' = newSocket

\* the observable part of a store after a handler ran
DsResult(d) ==
    /\ tasksCache' = d.tasks
    /\ warningsCache' = d.warnings
    /\ sensorDataCache' = d.sensor
    /\ monitor' = d.monitor

\* DataService.connectMQTT() (dataService.ts:184-220), for the one
\* ReconnectingWebSocket the service creates
connectMQTT ==
    /\ ~mqttWs
    /\ wsListeners = {}
    /\ mqttWs' = TRUE
    /\ wsListeners' = {"open", "message", "close", "error"}
    /\ rwsConnect
    /\ wsLast' = [NoWsEvt EXCEPT !.op = "connectMQTT", !.created = TRUE]
    /\ dsDisconnected' = FALSE
    /\ UNCHANGED <<wsReconnectAttempts, wsTimers, subscribers, sensorDataCache,
                   tasksCache, warningsCache, monitor, wsHandled>>
    /\ UNCHANGED <<mqttSide, now, appVars, miVars>>

\* DataService.subscribe(channel, callback) (dataService.ts:244-261)
subscribe(channel) ==
    /\ (IF channel \in DOMAIN subscribers THEN subscribers[channel] ELSE 0) < MaxSubs
    /\ subscribers' = [c \in DOMAIN subscribers \cup {channel} |->
                          IF c = channel
                          THEN (IF c \in DOMAIN subscribers THEN subscribers[c] ELSE 0) + 1
                          ELSE subscribers[c]]
    /\ wsLast' = [NoWsEvt EXCEPT !.op = "subscribe"]
    /\ UNCHANGED <<rwsVars, mqttWs, sensorDataCache, tasksCache, warningsCache, monitor,
                   dsDisconnected, wsHandled>>
    /\ UNCHANGED <<mqttSide, now, appVars, miVars>>

\* ws.onopen of socket h (connectionUtils.ts:102-107) and the 'open'
\* listener (dataService.ts:195-199)
wsOnOpen(h) ==
    /\ sockets[h] = "connecting"
    /\ sockets' = [sockets EXCEPT ![h] = "open"]
    /\ wsReconnectAttempts' = 0
    /\ \E d \in {IF "open" \in wsListeners
                 THEN notifySubscribers(recordActivity(DsStore), "connection",
                                        [mqttConnected |-> TRUE])
                 ELSE DsStore} :
          /\ DsResult(d)
          /\ wsLast' = [NoWsEvt EXCEPT !.op = "open", !.emitted = emit("open"),
                                       !.notified = d.notified]
    /\ UNCHANGED <<ws, wsListeners, wsTimers, mqttWs, subscribers, dsDisconnected,
                   wsHandled>>
    /\ UNCHANGED <<mqttSide, now, appVars, miVars>>

\* ws.onmessage of socket h (connectionUtils.ts:109-116) and the 'message'
\* listener (dataService.ts:201-203)
wsOnMessage(h, payload, rnd) ==
    /\ sockets[h] = "open"
    /\ \E d \in {IF ~JSONparseThrows(payload) /\ "message" \in wsListeners
                 THEN handleMQTTMessage(DsStore, JSONparse(payload), rnd)
                 ELSE DsStore} :
          /\ DsResult(d)
          /\ wsLast' = [NoWsEvt EXCEPT
                           !.op = "message",
                           !.payload = payload,
                           !.emitted = IF JSONparseThrows(payload) THEN <<>>
                                       ELSE emit("message"),
                           !.notified = d.notified]
    /\ wsHandled' = wsHandled + 1
    /\ UNCHANGED <<rwsVars, mqttWs, subscribers, dsDisconnected>>
    /\ UNCHANGED <<mqttSide, now, appVars, miVars>>

\* attemptReconnect() (connectionUtils.ts:170-178)
attemptReconnect ==
    IF wsReconnectAttempts < wsMaxReconnectAttempts
    THEN /\ wsReconnectAttempts' = wsReconnectAttempts + 1
         /\ wsTimers' = wsTimers + 1
    ELSE UNCHANGED <<wsReconnectAttempts, wsTimers>>

\* ws.onclose of socket h (connectionUtils.ts:118-122) and the 'close'
\* listener (dataService.ts:205-208)
wsOnClose(h) ==
    /\ sockets[h] \in {"connecting", "open", "closing"}
    /\ wsReconnectAttempts < wsMaxReconnectAttempts => wsTimers < MaxWsTimers
    /\ sockets' = [sockets EXCEPT ![h] = "free"]
    /\ attemptReconnect
    /\ \E d \in {IF "close" \in wsListeners
                 THEN notifySubscribers(DsStore, "connection", [mqttConnected |-> FALSE])
                 ELSE DsStore} :
          wsLast' = [NoWsEvt EXCEPT
                        !.op = "close", !.emitted = emit("close"),
                        !.delay = IF wsReconnectAttempts < wsMaxReconnectAttempts
                                  THEN wsReconnectDelay(wsReconnectAttempts + 1) ELSE 0,
                        !.notified = d.notified]
    /\ UNCHANGED <<ws, wsListeners, dsVars, dsDisconnected, wsHandled>>
    /\ UNCHANGED <<mqttSide, now, appVars, miVars>>

\* ws.onerror of socket h (connectionUtils.ts:124-128); the 'error' listener
\* only logs (dataService.ts:210-212)
wsOnError(h) ==
    /\ sockets[h] \in {"connecting", "open"}
    /\ wsLast' = [NoWsEvt EXCEPT !.op = "error", !.emitted = emit("error")]
    /\ UNCHANGED <<rwsVars, dsVars, dsDisconnected, wsHandled>>
    /\ UNCHANGED <<mqttSide, now, appVars, miVars>>

\* the callback of a timer set by attemptReconnect (connectionUtils.ts:173-176)
wsTimerFires ==
    /\ wsTimers > 0
    /\ wsTimers' = wsTimers - 1
    /\ rwsConnect
    /\ wsLast' = [NoWsEvt EXCEPT !.op = "timer", !.created = TRUE]
    /\ UNCHANGED <<wsReconnectAttempts, wsListeners, dsVars, dsDisconnected, wsHandled>>
    /\ UNCHANGED <<mqttSide, now, appVars, miVars>>

\* DataService.disconnect() (dataService.ts:222-241) with
\* ReconnectingWebSocket.disconnect() (connectionUtils.ts:157-162)
dsDisconnect ==
    /\ IF mqttWs /\ ws # 0
       THEN /\ sockets' = [sockets EXCEPT ![ws] = IF @ = "free" THEN "free" ELSE "closing"]
            /\ ws' = 0
       ELSE UNCHANGED <<sockets, ws>>
    /\ mqttWs' = FALSE
    /\ monitor' = [monitor EXCEPT !.monitoring = FALSE]
    /\ sensorDataCache' = <<>>
    /\ tasksCache' = <<>>
    /\ warningsCache' = <<>>
    /\ subscribers' = << >>
    /\ dsDisconnected' = TRUE
    /\ wsLast' = [NoWsEvt EXCEPT !.op = "disconnect"]
    /\ UNCHANGED <<wsReconnectAttempts, wsListeners, wsTimers, wsHandled>>
    /\ UNCHANGED <<mqttSide, now, appVars, miVars>>

\* ConnectionMonitor.updateStatus(newStatus) (connectionUtils.ts:79-82); the
\* one registered listener forwards the status to the 'connection' channel
\* (dataService.ts:110-112)
updateStatus(d, newStatus) ==
    notifySubscribers([d EXCEPT !.monitor.status = newStatus], "connection", newStatus)

\* the interval set at construction (clock 1) has a callback to run: fewer
\* callbacks ran than periods have passed
heartbeatDue ==
    /\ monitor.monitoring
    /\ monitor.beats < (now - 1) \div HeartbeatPeriod

\* faulty variant of heartbeatTick: a status whose last activity is exactly
\* heartbeatMs old is already marked disconnected
heartbeatTick_MarksAtLimit ==
    /\ heartbeatDue
    /\ \E d \in {IF now - monitor.status.lastSeen >= heartbeatMs
                    /\ monitor.status.isConnected
                 THEN updateStatus(DsStore, [monitor.status EXCEPT !.isConnected = FALSE])
                 ELSE DsStore} :
          /\ DsResult([d EXCEPT !.monitor.beats = @ + 1])
          /\ wsLast' = [NoWsEvt EXCEPT !.op = "heartbeat", !.notified = d.notified]
    /\ UNCHANGED <<rwsVars, mqttWs, subscribers, dsDisconnected, wsHandled>>
    /\ UNCHANGED <<mqttSide, now, appVars, miVars>>

\* the callback of the interval set by ConnectionMonitor.startMonitoring()
\* (connectionUtils.ts:25-34), which runs every heartbeatMs / 2 until
\* stopMonitoring() clears the interval
heartbeatTick ==
    /\ heartbeatDue
    /\ \E d \in {IF now - monitor.status.lastSeen > heartbeatMs
                    /\ monitor.status.isConnected
                 THEN updateStatus(DsStore, [monitor.status EXCEPT !.isConnected = FALSE])
                 ELSE DsStore} :
          /\ DsResult([d EXCEPT !.monitor.beats = @ + 1])
          /\ wsLast' = [NoWsEvt EXCEPT !.op = "heartbeat", !.notified = d.notified]
    /\ UNCHANGED <<rwsVars, mqttWs, subscribers, dsDisconnected, wsHandled>>
    /\ UNCHANGED <<mqttSide, now, appVars, miVars>>

\* time passing, by half a heartbeat period at a time; an interval callback
\* that is due runs before more time passes
Elapse ==
    /\ ~heartbeatDue
    /\ now - 1 < MaxHeartbeats * HeartbeatPeriod
    /\ now' = now + HeartbeatPeriod \div 2
    /\ wsLast' = [NoWsEvt EXCEPT !.op = "elapse"]
    /\ UNCHANGED <<rwsVars, dsVars, dsDisconnected, wsHandled>>
    /\ UNCHANGED <<mqttSide, appVars, miVars>>

----------------------------------------------------------------------------
\* The state after construction (MqttService.tsx:84-109, dataService.ts:64-96,
\* connectionUtils.ts:14-18, 89-93)

InitBase ==
    /\ client = 0
    /\ callbacks = {}
    /\ isConnected = FALSE
    /\ reconnectAttempts = 0
    /\ reconnectTimeout = 0
    /\ currentTasks = <<>>
    /\ currentWarnings = <<>>
    /\ currentSensorData = [temperature |-> 250, temperatureChange |-> 0,
                            humidity |-> 500, humidityChange |-> 0,
                            pressure |-> 7600, powerUsage |-> 40, powerUsageChange |-> 0,
                            status |-> "Operational", maintenanceDate |-> 1 + WeekMs]
    /\ clients = [h \in 1..MaxClients |-> "free"]
    /\ timers = {}
    /\ now = 1
    /\ calls = <<>>
    /\ escaped = FALSE
    /\ lastEvt = NoEvt
    /\ consecDisc = 0
    /\ added = <<>>
    /\ lastUpdate = <<>>
    /\ handled = 0
    /\ ws = 0
    /\ wsReconnectAttempts = 0
    /\ wsListeners = {}
    /\ sockets = [h \in 1..MaxSockets |-> "free"]
    /\ wsTimers = 0
    /\ mqttWs = FALSE
    /\ subscribers = [c \in Channels |-> 0]
    /\ sensorDataCache = <<>>
    /\ tasksCache = <<>>
    /\ warningsCache = <<>>
    /\ monitor = [status |-> [isConnected |-> FALSE, lastSeen |-> 0,
                              reconnectAttempts |-> 0],
                  monitoring |-> TRUE, beats |-> 0]
    /\ wsLast = NoWsEvt
    /\ dsDisconnected = FALSE
    /\ wsHandled = 0
    /\ isLoading = TRUE
    /\ appError = ""
    /\ race = "pending"
    /\ fetch = "pending"
    /\ appTimer = TRUE
    /\ listeners = <<>>
    /\ miCalls = <<>>
    /\ miThrew = FALSE
    /\ miLast = NoEvent
    /\ miSent = 0
    /\ miGot = [l \in ListenerNames |-> <<>>]
    /\ simulating = 0
    /\ simTicks = 0
    /\ shared = [warnings |-> FALSE, sensor |-> FALSE]
    /\ dirty = {}
    /\ dataState = defaultDataState
    /\ awaiting = {}
    /\ simTimers = {}
    /\ effectDeps = Deps(defaultDataState)
    /\ removedWarnings = {}

\* an MqttService used on its own
Init == InitBase /\ mounted = FALSE

\* an MqttService created by a ManagementInterfaceProvider
InitProvider == InitBase /\ mounted = TRUE

Clients == 1..MaxClients

\* Connection lifecycle of MqttService: connect()/disconnect() calls, the
\* events of every client created so far and the reconnect timers.
Next ==
    \/ connect
    \/ disconnect
    \/ \E c \in Clients : onConnect(c)
    \/ \E c \in Clients : onError(c)
    \/ \E c \in Clients : onClose(c)
    \/ \E c \in Clients : onOffline(c)
    \/ \E t \in timers : timerFires(t)

Spec == Init /\ [][Next]_vars

----------------------------------------------------------------------------
\* Properties of the connection lifecycle (checked under Spec)

\* C3: a second disconnect() in succession raises no error, changes no state
\* of the service or of its environment and invokes no callback.
C3_SecondDisconnectIsNoop ==
    [][consecDisc' = 2 =>
          /\ UNCHANGED <<mqttVars, clients, timers>>
          /\ calls' = <<>>
          /\ ~escaped']_vars

\* a second disconnect() right after one that tore a client down and
\* cancelled a pending reconnect timer
C3_Witness ==
    /\ consecDisc = 2
    /\ \E c \in Clients : clients[c] = "closing"
    /\ reconnectAttempts > 0

\* C5: when a close event finds the reconnect attempts exhausted, exactly one
\* high-severity warning is in the warning log (no inbound message is part of
\* this specification, so the log holds nothing else).
C5_TerminalWarningOnce ==
    (lastEvt.op = "close" /\ lastEvt.delay = 0 /\ reconnectAttempts = maxReconnectAttempts)
        => Cardinality({i \in 1..Len(currentWarnings) :
                           currentWarnings[i].severity = "high"}) = 1

\* C6: no reconnect timer that was pending at a disconnect(), or that the
\* close event of a client ended by disconnect() scheduled, calls
\* client.reconnect().
C6_NoReconnectByStaleTimer == ~(lastEvt.reconnected /\ lastEvt.staleTimer)

\* C7: an event of a client that disconnect() has ended invokes no callback
\* and changes no field of the service.
C7_EndedClientIsSilent ==
    [][lastEvt'.afterEnd =>
          /\ calls' = <<>>
          /\ UNCHANGED <<isConnected, reconnectAttempts, reconnectTimeout,
                         currentTasks, currentWarnings, currentSensorData>>]_vars

----------------------------------------------------------------------------
\* Inbound messages

TaskUpdates ==
    {[type |-> "task_update", timestamp |-> 1, task_id |-> tid, subtask_id |-> sid,
      status |-> st, progress |-> 1] :
        tid \in {"T1", "T2"}, sid \in {"", "T1A"}, st \in {"started", "completed"}}

RuleEvaluations ==
    {[type |-> "rule_evaluation", timestamp |-> 1, rule_id |-> "R1", satisfied |-> sat,
      details |-> d] :
        sat \in BOOLEAN,
        d \in {"", "Temperature CRITICAL", "Anomaly detected", "Belt speed low",
               "Warning: task failed"}}
    \cup {[type |-> "rule_evaluation", timestamp |-> 1, rule_id |-> "error_rate",
           satisfied |-> sat, details |-> ""] : sat \in BOOLEAN}

SystemStatuses ==
    {[type |-> "system_status", timestamp |-> 1, status |-> "idle", message |-> ""],
     [type |-> "system_status", timestamp |-> 1, status |-> "error", message |-> "Motor jam"],
     [type |-> "system_status", timestamp |-> 1, status |-> "waiting_confirmation",
      message |-> ""],
     [type |-> "system_status", timestamp |-> 1, status |-> "calibrating", message |-> ""]}

OtherEvents ==
    {[type |-> "state_transition", timestamp |-> 1, from_state |-> "idle",
      to_state |-> "executing_task"],
     [type |-> "state_transition", timestamp |-> 1, from_state |-> "executing_task",
      to_state |-> "cleaning"],
     [type |-> "performance_metrics", timestamp |-> 1,
      metrics |-> [subtask_id |-> "T1A", task_completion_time |-> 125]],
     [type |-> "user_action", timestamp |-> 1, action |-> "confirm"],
     [type |-> "heartbeat", timestamp |-> 1]}

Json(obj) == [json |-> TRUE, value |-> obj]
Malformed == [json |-> FALSE]

\* (topic, payload) pairs of SpecMsg
Deliveries ==
    ({ManagementTopic} \X
        ({Json(e) : e \in RuleEvaluations \cup SystemStatuses \cup OtherEvents}
         \cup {Json([type |-> "task_update", timestamp |-> 1, task_id |-> "T1",
                     subtask_id |-> "T1A", status |-> "started", progress |-> 1]),
               Malformed}))
    \cup ({ProjectorTopic, TelemetryTopic, "hands/position"} \X
        {Json([task |-> "T1", subtask |-> "T1A", progress |-> 50]), Malformed})

\* One client, connected once, delivering messages while time passes
FirstConnect == client = 0 /\ connect

NextMsg ==
    \/ FirstConnect
    \/ \E c \in Clients : onConnect(c)
    \/ \E c \in Clients, d \in Deliveries :
          handled < MaxMsgs /\ onMessage(c, d[1], d[2])
    \/ Tick

SpecMsg == Init /\ [][NextMsg]_vars

NextTasks ==
    \/ FirstConnect
    \/ \E c \in Clients : onConnect(c)
    \/ \E c \in Clients, e \in TaskUpdates :
          handled < MaxTaskMsgs /\ onMessage(c, ManagementTopic, Json(e))
    \/ Tick

SpecTasks == Init /\ [][NextTasks]_vars

RingEvent == [type |-> "rule_evaluation", timestamp |-> 1, rule_id |-> "R1",
              satisfied |-> FALSE, details |-> "Anomaly detected"]

NextRing ==
    \/ FirstConnect
    \/ \E c \in Clients : onConnect(c)
    \/ \E c \in Clients :
          Len(added) < MaxAdded /\ onMessage(c, ManagementTopic, Json(RingEvent))
    \/ Tick

SpecRing == Init /\ [][NextRing]_vars

\* Messages received over the WebSocket
WsMessages ==
    {Json([type |-> "task_update", timestamp |-> 1, task_id |-> "T1",
           subtask_id |-> "T1A", status |-> "Started"]),
     Json([type |-> "task_update", timestamp |-> 1, task_id |-> "7",
           subtask_id |-> "T7A", status |-> "completed"]),
     Json([type |-> "rule_evaluation", timestamp |-> 1, rule_id |-> "R1",
           satisfied |-> FALSE, details |-> "Belt speed low"]),
     Json([type |-> "sensor_update", timestamp |-> 1, temperature |-> 260,
           status |-> "cleaning"]),
     Json([type |-> "task_update", task_id |-> "T1", subtask_id |-> "T1A"]),
     Malformed}

\* the values Math.random() takes, in tenths
RandomTenths == {0, 5}

Sockets == 1..MaxSockets

\* DataService and its ReconnectingWebSocket: connectMQTT()/disconnect()/
\* subscribe() calls, the events of every WebSocket created so far and the
\* reconnect timers.
NextWS ==
    \/ connectMQTT
    \/ dsDisconnect
    \/ \E ch \in Channels : subscribe(ch)
    \/ \E h \in Sockets : wsOnOpen(h)
    \/ \E h \in Sockets, m \in WsMessages, rnd \in RandomTenths :
          wsHandled < MaxWsMsgs /\ wsOnMessage(h, m, rnd)
    \/ \E h \in Sockets : wsOnClose(h)
    \/ \E h \in Sockets : wsOnError(h)
    \/ wsTimerFires
    \/ Tick

SpecWS == Init /\ [][NextWS]_vars

----------------------------------------------------------------------------
\* Properties of message handling

TaskKeys == {currentTasks[i].key : i \in 1..Len(currentTasks)}

\* C1: after any sequence of task_update events applied to the empty cache,
\* the cache holds exactly one entry per key that was updated, each entry is
\* the Task built from the latest update of its key, and the list passed to
\* onTasks is the list of the cache's values.  (checked under SpecTasks)
C1_TaskCacheLastWriteWins ==
    /\ \A i, j \in 1..Len(currentTasks) :
          currentTasks[i].key = currentTasks[j].key => i = j
    /\ TaskKeys = DOMAIN lastUpdate
    /\ \A i \in 1..Len(currentTasks) :
          currentTasks[i].task = lastUpdate[currentTasks[i].key]
    /\ lastEvt.op = "message" =>
          calls = <<[cb  |-> "onTasks",
                     arg |-> [i \in 1..Len(currentTasks) |-> currentTasks[i].task]]>>

\* an update has replaced the entry of a key while another key is cached
C1_Witness ==
    /\ Len(currentTasks) = 2
    /\ handled = 3
    /\ lastEvt.op = "message"
    /\ currentTasks[1].task.status = "completed"
    /\ currentTasks[1].task.deadline > currentTasks[2].task.deadline

\* C2: the warning log never holds more than 50 entries; it holds the latest
\* min(N, 50) of the N warnings added so far, newest first.  (checked under
\* SpecRing)
C2_WarningRing ==
    LET n == Len(added)
    IN  /\ Len(currentWarnings) <= 50
        /\ Len(currentWarnings) = Min(n, 50)
        /\ \A i \in 1..Len(currentWarnings) : currentWarnings[i] = added[n - i + 1]

\* more than 50 warnings were added and the evicted one differs from those kept
C2_Witness ==
    /\ Len(added) > 50
    /\ Len(currentWarnings) = 50
    /\ added[1].id # currentWarnings[50].id

\* the severity the keyword rules give a text (letter case is not significant)
ContainsAny(text, words) == \E w \in words : includes(toLowerCase(text), w)
KeywordSeverity(text) ==
    IF ContainsAny(text, {"critical", "error", "failed"}) THEN "high"
    ELSE IF ContainsAny(text, {"warning", "anomaly", "confirmation"}) THEN "medium"
    ELSE "low"

IsRuleEvaluation(evt) ==
    /\ evt.op = "message"
    /\ evt.topic = ManagementTopic
    /\ evt.payload.json
    /\ Has(evt.payload.value, "type")
    /\ evt.payload.value.type = "rule_evaluation"

\* C4, for MqttService alone: a rule_evaluation event with satisfied = true
\* adds no warning; with satisfied = false it adds exactly one, whose
\* severity is given by the keyword rules applied to details, or to rule_id
\* when details is empty.  (checked under SpecMsg)
C4_RuleEvaluationWarning ==
    [][IsRuleEvaluation(lastEvt') =>
          LET e == lastEvt'.payload.value
          IN  IF e.satisfied
              THEN /\ currentWarnings' = currentWarnings
                   /\ \A i \in 1..Len(calls') : calls'[i].cb # "onWarnings"
              ELSE /\ Len(currentWarnings') = Min(Len(currentWarnings) + 1, WarningCapacity)
                   /\ SubSeq(currentWarnings', 2, Len(currentWarnings'))
                         = SubSeq(currentWarnings, 1, Len(currentWarnings') - 1)
                   /\ currentWarnings'[1].severity =
                         KeywordSeverity(IF e.details # "" THEN e.details ELSE e.rule_id)
                   /\ Cardinality({i \in 1..Len(calls') : calls'[i].cb = "onWarnings"}) = 1
      ]_vars

\* a failed rule whose details hold a high and a medium keyword was handled
C4_Witness ==
    /\ IsRuleEvaluation(lastEvt)
    /\ ~lastEvt.payload.value.satisfied
    /\ lastEvt.payload.value.details = "Warning: task failed"
    /\ Len(currentWarnings) = 2
    /\ currentWarnings[1].severity = "high"

\* C10: a payload that is no JSON document is dropped on every topic:
\* handleMessage lets no exception escape, the task cache, the warning log and
\* the sensor snapshot stay as they are and no callback is invoked.  (checked
\* under SpecMsg)
C10_MalformedPayloadDropped ==
    [][(lastEvt'.op = "message" /\ ~lastEvt'.payload.json) =>
          /\ ~escaped'
          /\ UNCHANGED <<currentTasks, currentWarnings, currentSensorData>>
          /\ calls' = <<>>]_vars

\* a malformed payload arrived on the management topic with data in the stores
C10_Witness ==
    /\ lastEvt.op = "message"
    /\ ~lastEvt.payload.json
    /\ lastEvt.topic = ManagementTopic
    /\ handled = 2
    /\ Len(currentWarnings) + Len(currentTasks) > 0

----------------------------------------------------------------------------
\* Properties of DataService and ReconnectingWebSocket (checked under SpecWS)

IsWsRuleEvaluation(evt) ==
    /\ evt.op = "message"
    /\ evt.emitted = <<"message">>
    /\ isValidMQTTMessage(evt.payload.value)
    /\ evt.payload.value.type = "rule_evaluation"

\* C4, for both services that turn rule_evaluation events into warnings
\* (MqttService.handleRuleEvaluation and DataService.processMQTTMessage with
\* mqttMessageToWarning): satisfied = true adds no warning, satisfied = false
\* adds exactly one, whose severity is given by the keyword rules applied to
\* details, or to rule_id when details is empty.
C4_KeywordSeverityInBothServices ==
    [][(IsRuleEvaluation(lastEvt') =>
           LET e == lastEvt'.payload.value
           IN  IF e.satisfied
               THEN currentWarnings' = currentWarnings
               ELSE /\ Len(currentWarnings')
                         = Min(Len(currentWarnings) + 1, WarningCapacity)
                    /\ currentWarnings'[1].severity =
                          KeywordSeverity(IF e.details # "" THEN e.details ELSE e.rule_id))
       /\
       (IsWsRuleEvaluation(wsLast') =>
           LET w == wsLast'.payload.value
           IN  IF w.satisfied
               THEN warningsCache' = warningsCache
               ELSE /\ Len(warningsCache')
                         = Min(Len(warningsCache) + 1, DsWarningCapacity)
                    /\ warningsCache'[1].severity =
                          KeywordSeverity(IF w.details # "" THEN w.details ELSE w.rule_id))
      ]_vars

\* C8: once DataService.disconnect() has been called (and connectMQTT() not
\* again), no step creates a WebSocket, no open, message or close event
\* reaches a listener and the caches of DataService stay empty.
C8_SilentAfterDisconnect ==
    dsDisconnected =>
        /\ ~wsLast.created
        /\ \A i \in 1..Len(wsLast.emitted) :
              wsLast.emitted[i] \notin {"open", "message", "close"}
        /\ tasksCache = <<>> /\ warningsCache = <<>> /\ sensorDataCache = <<>>

----------------------------------------------------------------------------
\* Reconnect delays of the two services.  MqttService and DataService share no
\* state, so a behaviour of SpecBackoff exercises one of them: its connects,
\* disconnects, closes and reconnect timers.

NextBackoff ==
    \/ wsLast.op = "none" /\ Next
    \/ lastEvt.op = "none" /\
          \/ connectMQTT
          \/ dsDisconnect
          \/ \E h \in Sockets : wsOnOpen(h)
          \/ \E h \in Sockets : wsOnClose(h)
          \/ wsTimerFires

SpecBackoff == Init /\ [][NextBackoff]_vars

\* C9: a close that schedules the k-th consecutive reconnect attempt passes
\* k times the base delay to setTimeout (5000 ms in MqttService, 1000 ms in
\* ReconnectingWebSocket); the delay grows linearly and its largest value is
\* the one of the last attempt allowed, 5 times the base.
C9_LinearBackoff ==
    /\ lastEvt.delay # 0 =>
          /\ reconnectAttempts \in 1..maxReconnectAttempts
          /\ lastEvt.delay = reconnectAttempts * ReconnectBaseMs
    /\ wsLast.delay # 0 =>
          /\ wsReconnectAttempts \in 1..wsMaxReconnectAttempts
          /\ wsLast.delay = wsReconnectAttempts * wsReconnectDelayMs
    /\ (lastEvt.op = "close" /\ lastEvt.delay = 0) =>
          reconnectAttempts = maxReconnectAttempts
    /\ (wsLast.op = "close" /\ wsLast.delay = 0) =>
          wsReconnectAttempts = wsMaxReconnectAttempts

\* the close that schedules the fifth attempt of MqttService
C9_Witness ==
    /\ lastEvt.op = "close"
    /\ reconnectAttempts = maxReconnectAttempts
    /\ lastEvt.delay = 25000

\* the delays of attempts 1..n are base, 2 base, 4 base, ... up to one cap
Doubles(base, n, delayOf(_)) ==
    \E cap \in {base * j : j \in 1..32} :
        \A k \in 1..n : delayOf(k) = Min(base * 2 ^ (k - 1), cap)

\* C9 as stated: the delay before the k-th consecutive attempt doubles from
\* one attempt to the next and never exceeds a fixed cap.
C9_DoublingBackoff ==
    /\ lastEvt.delay # 0 => Doubles(ReconnectBaseMs, reconnectAttempts, reconnectDelay)
    /\ wsLast.delay # 0 => Doubles(wsReconnectDelayMs, wsReconnectAttempts, wsReconnectDelay)

----------------------------------------------------------------------------
\* The provider receiving messages: its MqttService connects once and
\* delivers messages while time passes.

ProviderDeliveries ==
    {<<ManagementTopic, Json([type |-> "task_update", timestamp |-> 1, task_id |-> "T1",
                             subtask_id |-> "T1A", status |-> "started", progress |-> 1])>>,
     <<ManagementTopic, Json([type |-> "rule_evaluation", timestamp |-> 1, rule_id |-> "R1",
                             satisfied |-> FALSE, details |-> "Anomaly detected"])>>,
     <<ManagementTopic, Json([type |-> "system_status", timestamp |-> 1,
                             status |-> "error", message |-> "Motor jam"])>>,
     <<ManagementTopic, Malformed>>,
     <<TelemetryTopic, Malformed>>}

NextProviderMsg ==
    \/ FirstConnect
    \/ \E c \in Clients : onConnect(c)
    \/ \E c \in Clients : onError(c)
    \/ \E c \in Clients, d \in ProviderDeliveries :
          handled < MaxMsgs /\ onMessage(c, d[1], d[2])
    \/ Tick

SpecProviderMsg == InitProvider /\ [][NextProviderMsg]_vars

\* C11: every inbound message that parses increments message_count by one
\* and sets last_data_received to the time of its arrival, every malformed
\* payload increments error_count by one, and neither counter ever decreases.
C11_CountersTrackTraffic ==
    [][/\ (lastEvt'.op = "message" /\ lastEvt'.payload.json) =>
             /\ dataState'.connectionStatus.message_count
                   = dataState.connectionStatus.message_count + 1
             /\ dataState'.connectionStatus.last_data_received = now'
       /\ (lastEvt'.op = "message" /\ ~lastEvt'.payload.json) =>
             dataState'.connectionStatus.error_count
                = dataState.connectionStatus.error_count + 1
       /\ dataState'.connectionStatus.message_count
             >= dataState.connectionStatus.message_count
       /\ dataState'.connectionStatus.error_count
             >= dataState.connectionStatus.error_count
      ]_vars

----------------------------------------------------------------------------
\* Status mappings

IsManagementEvent(evt, type) ==
    /\ evt.op = "message"
    /\ evt.topic = ManagementTopic
    /\ evt.payload.json
    /\ Has(evt.payload.value, "type")
    /\ evt.payload.value.type = type

\* the keys of statusMapping in updateSystemStatus
statusMappingKeys ==
    {"idle", "waiting", "cleaning", "executing", "waiting_confirmation", "completing",
     "task_completed", "error"}

\* C12: a system_status event whose status token is not a key of the lookup
\* table sets the system status to Warning: in the sensor snapshot and in the
\* value passed to onSystemStatus.  (checked under SpecMsg)
C12_UnmappedStatusIsWarning ==
    [][(/\ IsManagementEvent(lastEvt', "system_status")
        /\ lastEvt'.payload.value.status \notin statusMappingKeys) =>
          /\ currentSensorData'.status = "Warning"
          /\ \A i \in 1..Len(calls') :
                calls'[i].cb = "onSystemStatus" => calls'[i].arg = "Warning"
      ]_vars

\* task_update events carrying every status the table of mapTaskStatus names
\* and two it does not, and events without their status field
TaskStatusInputs ==
    {"started", "in_progress", "waiting_confirmation", "completed", "failed", "pending",
     "paused"}

FieldDeliveries ==
    {<<ManagementTopic, Json([type |-> "task_update", timestamp |-> 1, task_id |-> "T1",
                             subtask_id |-> sid, status |-> st, progress |-> 1])>> :
        sid \in {"T1A", "T1B"}, st \in TaskStatusInputs}
    \cup {<<ManagementTopic, Json([type |-> "task_update", timestamp |-> 1,
                                  task_id |-> "T1", subtask_id |-> "T1A"])>>,
          <<ManagementTopic, Json([type |-> "system_status", timestamp |-> 1])>>}

NextFields ==
    \/ FirstConnect
    \/ \E c \in Clients : onConnect(c)
    \/ \E c \in Clients, d \in FieldDeliveries :
          handled < MaxMsgs /\ onMessage(c, d[1], d[2])
    \/ Tick

SpecFields == Init /\ [][NextFields]_vars

\* C13: a task_update stores its task with status in-progress when the event
\* says started or in_progress, with the event's own status when it says
\* waiting_confirmation, completed or failed, and with pending otherwise.
C13_TaskStatusMapping ==
    [][(/\ IsManagementEvent(lastEvt', "task_update")
        /\ Has(lastEvt'.payload.value, "status")) =>
          LET st == lastEvt'.payload.value.status
              stored == MapGet(currentTasks', taskKey(lastEvt'.payload.value)).status
          IN  stored = CASE st \in {"started", "in_progress"} -> "in-progress"
                         [] st \in {"waiting_confirmation", "completed", "failed"} -> st
                         [] OTHER -> "pending"
      ]_vars

\* C14: a task_update or system_status event without its status field is
\* dropped: no cache changes and no callback is invoked.
C14_MissingFieldDropped ==
    [][(/\ \/ IsManagementEvent(lastEvt', "task_update")
           \/ IsManagementEvent(lastEvt', "system_status")
        /\ ~Has(lastEvt'.payload.value, "status")) =>
          /\ UNCHANGED <<currentTasks, currentWarnings, currentSensorData>>
          /\ calls' = <<>>
      ]_vars

----------------------------------------------------------------------------
\* Messages nobody handles (checked under SpecMsg)

ConfiguredTopics == {ManagementTopic, ProjectorTopic, TelemetryTopic}

\* the case labels of the switch in handleManagementMessage
ManagementEventTypes ==
    {"system_status", "task_update", "rule_evaluation", "state_transition", "user_action",
     "performance_metrics"}

\* a payload that parsed, on a topic that is not configured or, on the
\* management topic, with a type the switch has no case for
IsUnhandled(evt) ==
    /\ evt.op = "message"
    /\ evt.payload.json
    /\ \/ evt.topic \notin ConfiguredTopics
       \/ /\ evt.topic = ManagementTopic
          /\ Has(evt.payload.value, "type")
          /\ evt.payload.value.type \notin ManagementEventTypes

\* C15: a message that parses but comes on a topic that is not configured, or
\* on the management topic with an unknown type, changes no cache, invokes no
\* callback and lets no exception escape.
C15_UnhandledMessageIgnored ==
    [][IsUnhandled(lastEvt') =>
          /\ ~escaped'
          /\ UNCHANGED <<currentTasks, currentWarnings, currentSensorData>>
          /\ calls' = <<>>]_vars

\* an event of unknown type arrived on the management topic while the stores
\* held data and callbacks were registered
C15_Witness ==
    /\ IsUnhandled(lastEvt)
    /\ lastEvt.topic = ManagementTopic
    /\ handled = 2
    /\ Len(currentWarnings) + Len(currentTasks) > 0
    /\ callbacks # {}

----------------------------------------------------------------------------
\* The provider with events of every type and the sensor simulation

SimDeliveries ==
    {<<ManagementTopic, Json(e)>> :
        e \in {[type |-> "system_status", timestamp |-> 1, status |-> "idle", message |-> ""],
               [type |-> "system_status", timestamp |-> 1, status |-> "error",
                message |-> "Motor jam"],
               [type |-> "state_transition", timestamp |-> 1, from_state |-> "idle",
                to_state |-> "executing_task"],
               [type |-> "task_update", timestamp |-> 1, task_id |-> "T1",
                subtask_id |-> "T1A", status |-> "started", progress |-> 1],
               [type |-> "rule_evaluation", timestamp |-> 1, rule_id |-> "R1",
                satisfied |-> FALSE, details |-> "Anomaly detected"],
               [type |-> "performance_metrics", timestamp |-> 1,
                metrics |-> [subtask_id |-> "T1A", task_completion_time |-> 125]]}}

NextSim ==
    \/ FirstConnect
    \/ \E c \in Clients : onConnect(c)
    \/ \E c \in Clients, d \in SimDeliveries :
          handled < MaxMsgs /\ onMessage(c, d[1], d[2])
    \/ \E t \in simTimers : provTimerFires(t)
    \/ \E rnd \in SimDraws : simulationTick(rnd)
    \/ Tick

SpecSim == InitProvider /\ [][NextSim]_vars

\* C16: the system status changes only in a step that handles a
\* system_status event: a state_transition, task_update, rule_evaluation or
\* performance_metrics event and a run of the sensor simulation leave the
\* status of the sensor snapshot and the provider's systemStatus as they were
\* and pass nothing to onSystemStatus.
C16_OnlySystemStatusSetsStatus ==
    [][~IsManagementEvent(lastEvt', "system_status") =>
          /\ currentSensorData'.status = currentSensorData.status
          /\ dataState'.systemStatus = dataState.systemStatus
          /\ \A i \in 1..Len(calls') : calls'[i].cb # "onSystemStatus"]_vars

\* the simulation has just published a snapshot while the status was Critical
C16_Witness ==
    /\ lastEvt.op = "simulation"
    /\ calls # <<>>
    /\ currentSensorData.status = "Critical"
    /\ dataState.systemStatus = "Critical"

----------------------------------------------------------------------------
\* Snapshots

\* C17: every value passed to a callback is a snapshot: no step changes an
\* object after it has been passed to a callback.  (checked under SpecSim)
C17_CallbackValuesAreSnapshots == dirty = {}

----------------------------------------------------------------------------
\* Connection health of the provider

HealthDeliveries ==
    {<<ManagementTopic, Json([type |-> "task_update", timestamp |-> 1, task_id |-> "T1",
                             subtask_id |-> "T1A", status |-> "started", progress |-> 1])>>,
     <<ManagementTopic, Malformed>>}

NextHealth ==
    \/ FirstConnect
    \/ \E c \in Clients : onConnect(c)
    \/ \E c \in Clients : onError(c)
    \/ \E c \in Clients, d \in HealthDeliveries :
          handled < MaxMsgs /\ onMessage(c, d[1], d[2])
    \/ healthCheck

SpecHealth == InitProvider /\ [][NextHealth]_vars

\* the health the provider is said to report while connected
ClaimedHealth(d, t) ==
    LET timeSinceLastUpdate == t - d.lastUpdate
        errors   == d.connectionStatus.error_count
        messages == Max(1, d.connectionStatus.message_count)
    IN  IF timeSinceLastUpdate > 300000 \/ 10 * errors > 3 * messages THEN "critical"
        ELSE IF timeSinceLastUpdate > 60000 \/ 10 * errors > messages THEN "warning"
        ELSE "healthy"

\* C18: while the provider is connected, getConnectionHealth returns critical
\* when the last update is more than 300000 ms old or the error ratio exceeds
\* 0.3, warning when more than 60000 ms or 0.1, healthy otherwise; and the
\* health-check tick that finds the health critical forces a reconnect.
C18_CriticalHealthForcesReconnect ==
    [][(dataState.isConnected /\ lastEvt'.op \in {"healthCheck", "healthReconnect"}) =>
          /\ getConnectionHealth(dataState, now') = ClaimedHealth(dataState, now')
          /\ ClaimedHealth(dataState, now') = "critical" => lastEvt'.op = "healthReconnect"
      ]_vars

----------------------------------------------------------------------------
\* Startup while neither the broker nor the aggregator can be reached: the
\* client never receives a CONNACK and the fetch only ever fails, at once or
\* when fetchWithTimeout aborts it.

NextUnreachable ==
    \/ FirstConnect
    \/ \E c \in Clients : onError(c)
    \/ \E c \in Clients : onClose(c)
    \/ \E t \in timers : timerFires(t)
    \/ \E t \in simTimers : provTimerFires(t)
    \/ \E rnd \in SimDraws : simulationTick(rnd)
    \/ fetchSettles("rejected")
    \/ appTimeoutFires
    \/ Tick

SpecUnreachable == InitProvider /\ [][NextUnreachable]_vars

\* C19: when broker and backend are never reachable, startup still ends with
\* the dashboard: once loading has ended App shows the dashboard and not the
\* error screen, and the provider reports the connection health critical.
C19_StartupEndsWithDashboard ==
    /\ ~isLoading => Screen = "Dashboard"
    /\ getConnectionHealth(dataState, now) = "critical"

----------------------------------------------------------------------------
\* ManagementInterface: subscriptions and sends in any order

NextMI ==
    \/ \E l \in ListenerNames : miSubscribe(l)
    \/ \E l \in ListenerNames : miUnsubscribe(l)
    \/ sendSystemStatus("test", "")
    \/ sendStateChange("idle", "executing_task")
    \/ \E progress \in {0, 505} : sendTaskUpdate("T1", "T1A", "started", progress)
    \/ sendRuleEvaluation("R1", TRUE, "")

SpecMI == Init /\ [][NextMI]_vars

\* C20: a send* call invokes the listeners in the order they subscribed, once
\* for each subscription, each with the event sent, and every listener gets
\* the events of successive sends in the order they were sent.
C20_PublishInSubscriptionOrder ==
    [][miSent' = miSent + 1 =>
          /\ miCalls' = [i \in 1..Len(listeners) |->
                            [listener |-> listeners[i], event |-> miLast']]
          /\ \A l \in ListenerNames :
                \A i, j \in 1..Len(miGot'[l]) : i <= j => miGot'[l][i] <= miGot'[l][j]
      ]_vars

----------------------------------------------------------------------------
\* ManagementInterface: subscriptions around a send

\* progress values in thousandths: below 0, the boundaries, between, above 1
ProgressInputs == {-100, 0, 123, 505, 1000, 1500}

\* the listeners that return normally
QuietListeners == ListenerNames \ {"thrower"}

NextSubs ==
    \/ \E l \in QuietListeners : miSubscribe(l)
    \/ \E l \in QuietListeners : miUnsubscribe(l)
    \/ miSent < MaxSubSends /\ sendSystemStatus("test", "")

SpecSubs == Init /\ [][NextSubs]_vars

\* listeners subscribe and task updates are sent
NextProgress ==
    \/ \E l \in ListenerNames : miSubscribe(l)
    \/ \E progress \in ProgressInputs :
          miSent < MaxSubSends /\ sendTaskUpdate("T1", "T1A", "started", progress)

SpecProgress == Init /\ [][NextProgress]_vars

\* the number of times l occurs in the sequence ls
Occurrences(ls, l) == Cardinality({i \in 1..Len(ls) : ls[i] = l})

\* C21: unsubscribe(l) removes every subscription of l, so that no later
\* event invokes l, keeps the subscriptions of the other listeners as they
\* were, in their order, and changes nothing when l is not subscribed.
C21_UnsubscribeRemovesAll ==
    [][/\ \A l \in ListenerNames :
             miUnsubscribe(l) =>
                /\ Occurrences(listeners', l) = 0
                /\ SelectSeq(listeners', LAMBDA x : x # l)
                      = SelectSeq(listeners, LAMBDA x : x # l)
                /\ Len(listeners') = Len(listeners) - Occurrences(listeners, l)
                /\ Occurrences(listeners, l) = 0 => listeners' = listeners
                /\ ~miThrew'
       /\ \A i \in 1..Len(miCalls') : Occurrences(listeners, miCalls'[i].listener) > 0
      ]_vars

\* a listener that got the first event twice has been unsubscribed and the
\* second event went to the other listener alone
C21_Witness ==
    /\ miSent = 2
    /\ miGot["a"] = <<1, 1>>
    /\ miGot["b"] = <<1, 2>>
    /\ listeners = <<"b">>
    /\ miCalls = <<[listener |-> "b", event |-> miLast]>>

C23_ProgressRoundedNotClamped ==
    [][\A p \in ProgressInputs :
          sendTaskUpdate("T1", "T1A", "started", p) =>
             /\ miLast'.type = "task_update"
             /\ miLast'.progress.den = 100
             /\ 10 * miLast'.progress.num - 5 <= p
             /\ p < 10 * miLast'.progress.num + 5
             /\ miThrew' => Occurrences(listeners, "thrower") > 0
      ]_vars

\* a progress above 1 has been published to a listener
C23_Witness ==
    /\ miLast.type = "task_update"
    /\ miLast.progress = Ratio(150, 100)
    /\ miCalls # <<>>

----------------------------------------------------------------------------
\* Warning ids

\* C24: the warnings of the log carry distinct ids that strictly increase in
\* the order of insertion (the log holds the newest warning first), also for
\* warnings added within the same clock tick.  (checked under SpecMsg)
C24_WarningIdsIncrease ==
    \A i, j \in 1..Len(currentWarnings) :
        i < j => currentWarnings[i].id > currentWarnings[j].id

----------------------------------------------------------------------------
\* One connection

\* C25: whatever connect() and disconnect() calls are made, at most one
\* client created by the service is live at any time.  (checked under Spec)
C25_AtMostOneLiveClient ==
    Cardinality({h \in 1..MaxClients : Live(h)}) <= 1

----------------------------------------------------------------------------
\* The tasks cache of DataService

WsTaskUpdates ==
    {Json([type |-> "task_update", timestamp |-> 1, task_id |-> tid, subtask_id |-> sid,
           status |-> st]) :
        tid \in {"7", "T1"}, sid \in {"T7A", "T7B"}, st \in {"started", "completed"}}

NextWsTasks ==
    \/ connectMQTT
    \/ \E h \in Sockets : wsOnOpen(h)
    \/ \E h \in Sockets, m \in WsTaskUpdates, rnd \in RandomTenths :
          wsHandled < MaxWsMsgs /\ wsOnMessage(h, m, rnd)
    \/ Tick

SpecWsTasks == Init /\ [][NextWsTasks]_vars

\* the subtask ids of the entries of a tasks cache
Subtasks(cache) == {cache[i].title : i \in 1..Len(cache)}

\* C26: the tasks cache of DataService holds at most one entry for a subtask
\* id, and a task_update keeps the entries of all other subtasks.
C26_OneEntryPerSubtask ==
    [][/\ \A i, j \in 1..Len(tasksCache') :
             tasksCache'[i].title = tasksCache'[j].title => i = j
       /\ Subtasks(tasksCache) \subseteq Subtasks(tasksCache')
      ]_vars

----------------------------------------------------------------------------
\* Reconnect attempts (checked under SpecBackoff)

\* C27: in MqttService and in ReconnectingWebSocket the count of reconnect
\* attempts stays within 0..5, the 'connect' event and the open of a socket
\* reset it to 0, and a close event that finds it at 5 leaves it there and
\* schedules no timer.
C27_ReconnectAttemptsBounded ==
    [][/\ reconnectAttempts' \in 0..maxReconnectAttempts
       /\ wsReconnectAttempts' \in 0..wsMaxReconnectAttempts
       /\ lastEvt'.op = "connect_event" => reconnectAttempts' = 0
       /\ wsLast'.op = "open" => wsReconnectAttempts' = 0
       /\ (lastEvt'.op = "close" /\ reconnectAttempts = maxReconnectAttempts) =>
             /\ UNCHANGED <<reconnectAttempts, timers, reconnectTimeout>>
             /\ lastEvt'.delay = 0
       /\ (wsLast'.op = "close" /\ wsReconnectAttempts = wsMaxReconnectAttempts) =>
             /\ UNCHANGED <<wsReconnectAttempts, wsTimers>>
             /\ wsLast'.delay = 0
      ]_vars

\* a client has closed once more after the fifth attempt was scheduled
C27_Witness ==
    /\ lastEvt.op = "close"
    /\ reconnectAttempts = maxReconnectAttempts
    /\ lastEvt.delay = 0

----------------------------------------------------------------------------
\* ConnectionMonitor under DataService: activity comes from the socket opening
\* and from inbound messages, the heartbeat interval runs until disconnect().

MonitorMessages ==
    {Json([type |-> "task_update", timestamp |-> 1, task_id |-> "T1",
           subtask_id |-> "T7A", status |-> "started"])}

NextMonitor ==
    \/ connectMQTT
    \/ subscribe("connection")
    \/ \E h \in Sockets : wsOnOpen(h)
    \/ \E h \in Sockets, m \in MonitorMessages :
          wsHandled < MaxWsMsgs /\ wsOnMessage(h, m, 0)
    \/ heartbeatTick
    \/ Elapse
    \/ dsDisconnect

SpecMonitor == Init /\ [][NextMonitor]_vars

\* time keeps passing, and the interval callback keeps being scheduled while
\* monitoring is on
SpecMonitorFair == SpecMonitor /\ WF_vars(heartbeatTick) /\ WF_vars(Elapse)

\* the status is connected and the last activity is older than heartbeatMs,
\* with monitoring on
Stale ==
    /\ monitor.monitoring
    /\ monitor.status.isConnected
    /\ now - monitor.status.lastSeen > heartbeatMs

\* the status listeners were told the new status
StatusNotified ==
    /\ Len(wsLast.notified) =
          (IF "connection" \in DOMAIN subscribers THEN subscribers["connection"] ELSE 0)
    /\ \A i \in 1..Len(wsLast.notified) :
          wsLast.notified[i] = [channel |-> "connection", data |-> monitor.status]

\* C28: while monitoring, a connected status whose last activity is older
\* than heartbeatMs is eventually marked disconnected by a heartbeat tick that
\* notifies the status listeners (unless activity or stopMonitoring comes
\* first), and a step marks the status disconnected only when it is a
\* heartbeat tick and the last activity is more than heartbeatMs old.
C28_HeartbeatMarksStale ==
    /\ Stale ~> \/ ~monitor.status.isConnected /\ wsLast.op = "heartbeat"
                    /\ StatusNotified
                \/ now - monitor.status.lastSeen <= heartbeatMs
                \/ ~monitor.monitoring
    /\ [][(monitor.status.isConnected /\ ~monitor'.status.isConnected)
             => /\ wsLast'.op = "heartbeat"
                /\ now - monitor.status.lastSeen > heartbeatMs
                /\ monitor'.status.lastSeen = monitor.status.lastSeen
                /\ StatusNotified']_vars

C28_Witness ==
    /\ wsLast.op = "heartbeat"
    /\ ~monitor.status.isConnected
    /\ monitor.status.lastSeen > 0
    /\ Len(wsLast.notified) = 1

----------------------------------------------------------------------------
\* The provider with its initialize-connection effect: the effect runs right
\* after the render that changed connectToMqtt, before any further event.

EffectPending == mounted /\ Deps(dataState) # effectDeps

NextEffect ==
    \/ effectRerun
    \/ ~EffectPending /\ FirstConnect
    \/ ~EffectPending /\ \E c \in Clients : onConnect(c)
    \/ ~EffectPending /\ \E c \in Clients : clients[c] = "closing" /\ onClose(c)
    \/ ~EffectPending /\ \E c \in Clients, d \in ProviderDeliveries :
                             handled < MaxMsgs /\ onMessage(c, d[1], d[2])
    \/ ~EffectPending /\ Tick

SpecEffect == InitProvider /\ [][NextEffect]_vars

\* C29: the step that follows the processing of an inbound message neither
\* disconnects the MqttService nor makes it connect.
C29_MessageKeepsConnection ==
    [][lastEvt.op = "message" => client' = client /\ lastEvt'.op # "effect"]_vars

----------------------------------------------------------------------------
\* The provider's warnings list: warnings arrive from the MqttService, the
\* user clears or acknowledges them.

WarningDeliveries ==
    {<<ManagementTopic, Json([type |-> "rule_evaluation", timestamp |-> 1, rule_id |-> "R1",
                             satisfied |-> FALSE, details |-> d])>> :
        d \in {"Anomaly detected", "Belt speed low", "Temperature CRITICAL"}}

WarningIds == {dataState.warnings[i].id : i \in 1..Len(dataState.warnings)}

NextWarnings ==
    \/ FirstConnect
    \/ \E c \in Clients : onConnect(c)
    \/ \E c \in Clients, d \in WarningDeliveries :
          handled < MaxMsgs /\ onMessage(c, d[1], d[2])
    \/ Tick
    \/ dataState.warnings # <<>> /\ clearWarnings
    \/ \E id \in WarningIds : acknowledgeWarning(id)

SpecWarnings == InitProvider /\ [][NextWarnings]_vars

\* C30: a warning that acknowledgeWarning(id) or clearWarnings() removed is
\* not in the provider's warnings list again: the list holds no removed
\* warning that was created before the current clock value.
C30_RemovedWarningsStayRemoved ==
    \A i \in 1..Len(dataState.warnings) :
        dataState.warnings[i] \in removedWarnings => dataState.warnings[i].id = now

====
